---------------------------- MODULE Spec2Model ----------------------------
(***************************************************************************)
(* A model of the voice-agent-course coordination core:                    *)
(*   - LangGraphAgent (domain/agents/langgraph_agent.py): the bounded       *)
(*     conversation history and the stream / invoke calls,                  *)
(*   - RealtimeTTSAdapter (infrastructure/audio/realtime_tts_adapter.py),   *)
(*   - VoiceAgent (application/voice_agent.py) and EnhancedVoiceAgent       *)
(*     (application/voice_agent_enhanced.py): the turn loops and the        *)
(*     recording_start interruption path.                                   *)
(* Texts are sequences of characters: "w" stands for any non-blank          *)
(* character and " " for whitespace; the texts "Error: ..." and            *)
(* "No response generated." are single symbols.                             *)
(* The recorder and the TTS engine are libraries outside the repository:    *)
(* the recorder may begin an utterance whenever it is idle and the          *)
(* engine's playback may end at any time.                                   *)
(***************************************************************************)
EXTENDS Integers, Sequences, FiniteSets, TLC

\* ------------------------------------------------------------------------
\* Bounds of the model
\* ------------------------------------------------------------------------
MaxHistoryTurns == 2
MaxCalls == 3
MaxEvents == 2
MaxUtterances == 2
MaxYields == 2
MaxSilences == 2
MaxPartials == 2

\* LangGraphAgent.__init__: self.max_history_turns = 3
DefaultMaxHistoryTurns == 3

\* ------------------------------------------------------------------------
\* Texts
\* ------------------------------------------------------------------------
RECURSIVE LStrip(_)
LStrip(s) ==
    IF s = <<>> THEN s
    ELSE IF Head(s) = " " THEN LStrip(Tail(s)) ELSE s

RECURSIVE RStrip(_)
RStrip(s) ==
    IF s = <<>> THEN s
    ELSE IF s[Len(s)] = " " THEN RStrip(SubSeq(s, 1, Len(s) - 1)) ELSE s

\* str.strip()
Strip(s) == RStrip(LStrip(s))

\* f"Error: {str(e)}"
ErrorMsg == <<"Error: ...">>

\* "No response generated."
NoResponseMsg == <<"No response generated.">>

\* chunk.content of one on_chat_model_stream event
ChunkContents == {<<>>, <<"w">>, <<" ">>}

\* what the user can say
UserTexts == {<<"h", "i">>, <<"e", "x", "i", "t">>}

\* ------------------------------------------------------------------------
\* LangGraphAgent: history
\* ------------------------------------------------------------------------
HumanMessage(content, turn) == [role |-> "human", content |-> content, turn |-> turn]

AIMessage(content, turn) == [role |-> "ai", content |-> content, turn |-> turn]

\* Python's s[-k:]: the last k elements, and for k = 0 the slice s[0:]
PySliceLast(s, k) ==
    IF k = 0 THEN s
    ELSE IF k >= Len(s) THEN s
    ELSE SubSeq(s, Len(s) - k + 1, Len(s))

GetRecentHistory(history, maxTurns) ==
    IF history = <<>> THEN <<>>
    ELSE PySliceLast(history, maxTurns * 2)

\* a trim that keeps one entry more than _update_history does
UpdateHistory_OffByOne(history, maxTurns, user_message, ai_response, turn) ==
    LET extended == history \o <<HumanMessage(user_message, turn), AIMessage(ai_response, turn)>>
    IN  IF Len(extended) > maxTurns * 2
        THEN PySliceLast(extended, maxTurns * 2 + 1)
        ELSE extended

\* a call that leaves the history as it found it
UpdateHistory_Forgotten(history, maxTurns, user_message, ai_response, turn) == history

UpdateHistory(history, maxTurns, user_message, ai_response, turn) ==
    LET extended == history \o <<HumanMessage(user_message, turn), AIMessage(ai_response, turn)>>
    IN  IF Len(extended) > maxTurns * 2
        THEN PySliceLast(extended, maxTurns * 2)
        ELSE extended

VARIABLES
    max_history_turns,      \* LangGraphAgent.max_history_turns
    conversation_history,   \* LangGraphAgent.conversation_history
    gen,                    \* the async generator of the stream() call in progress
    agent_input,            \* the message list handed to the agent by the latest call,
                            \* with the history as it was when the call was made
    calls,                  \* number of invoke / stream calls made so far
    turnLog                 \* history variable: the calls ended since the last clear

VARIABLES
    app,                    \* the running program: "script", "VoiceAgent" or "EnhancedVoiceAgent"
    utterances,             \* utterances the recorder has begun
    recording,              \* the recorder is inside an utterance
    cb,                     \* the STT thread: its position in the callback it is running
    transcription_queue,    \* VoiceAgent.transcription_queue
    message_queue,          \* VoiceAgent.message_queue
    sent,                   \* the message websocket.send_json sent last
    scheduled,              \* coroutines handed to the loop by run_coroutine_threadsafe
    tts_to_client,          \* VoiceAgentCallbacks.tts_to_client
    shutdown_requested,     \* VoiceAgent.shutdown_requested
    text_task,              \* position of VoiceAgent.send_text_messages_task
    input_queue,            \* EnhancedVoiceAgent.input_queue
    agent_loop,             \* position of EnhancedVoiceAgent.agent_loop
    stt_loop,               \* position of EnhancedVoiceAgent.stt_loop
    first_chunk,            \* agent_loop's local first_chunk
    is_playing,             \* RealtimeTTSAdapter.is_playing
    engine_playing,         \* the TextToAudioStream is playing
    engine_buffer,          \* text fed to the TextToAudioStream and not yet spoken
    streams,                \* history variable: turns whose agent stream is being consumed
    interrupted,            \* history variable: turns during which recording_start fired
    stopped,                \* history variable: turns whose playback a recording_start stopped
    plays,                  \* history variable: the play_stream_async calls
    late_output,            \* history variable: tokens of a turn handled after its interruption
    yielded,                \* history variable: chunks the turns' streams have yielded
    rs_stop_called,         \* history variable: recording_starts whose stop_playing was invoked
    rs_scheduled,           \* history variable: recording_starts whose coroutine was scheduled
    rs_enqueued             \* history variable: recording_start messages put into message_queue

voiceVars == <<app, utterances, recording, cb, transcription_queue, message_queue, sent,
               scheduled, tts_to_client, shutdown_requested, text_task, input_queue, agent_loop,
               stt_loop, first_chunk, is_playing, engine_playing, engine_buffer, streams,
               interrupted, stopped, plays, late_output, yielded, rs_stop_called,
               rs_scheduled, rs_enqueued>>

agentVars == <<max_history_turns, conversation_history, gen, agent_input, calls, turnLog>>

VARIABLES
    faults                  \* the exceptions raised inside the TTS engine: [turn, site]

faultVars == <<faults>>

VARIABLES
    recorder,               \* the AudioToTextRecorder: the utterance it is in, its phase, and how
                            \* much of post_speech_silence_duration has passed since the speech ended
    text_call,              \* transcribe_loop: "blocked" inside recorder.text, or "returned"
    realtime_text,          \* TranscriptionProcessor.realtime_text (<<>> is None)
    final_transcription,    \* TranscriptionProcessor.final_transcription (<<>> is None)
    silence_time,           \* TranscriptionProcessor.silence_time is set (not 0.0)
    hot,                    \* the local variable hot of the silence monitor
    silences,               \* silence periods the recorder has reported
    produced,               \* the partial texts the recorder has produced: [utt, text]
    finals,                 \* the calls of VoiceAgent._on_final_transcription: [utt, thread, text]
                            \* and the silence period they were made in
    client,                 \* the transcription events sent to the client
    accesses                \* which thread has touched which object: [object, thread]

sttVars == <<recorder, text_call, realtime_text, final_transcription, silence_time, hot,
             silences, produced, finals, client, accesses>>

VARIABLES
    tasks,                  \* the four tasks of run_conversation: running, finished or cancelled
    run_conversation,       \* VoiceAgent.run_conversation: its position
    transcription_task,     \* AudioInputProcessor.transcription_task
    transcribe_thread,      \* the asyncio.to_thread worker inside transcribe_loop
    shutdown_performed,     \* TranscriptionProcessor.shutdown_performed
    recorder_shutdowns,     \* calls of recorder.shutdown()
    monitor_thread          \* the silence monitor thread: "polling" or "terminated"

shutVars == <<tasks, run_conversation, transcription_task, transcribe_thread,
              shutdown_performed, recorder_shutdowns, monitor_thread>>

\* EnhancedVoiceAgent.run_conversation: the position of tts_loop and of
\* run_conversation itself
VARIABLES
    tts_loop,
    enhanced_run

evaVars == <<tts_loop, enhanced_run>>

\* run_conversation has entered asyncio.gather, tts_loop is in its first sleep
EnhancedInit ==
    /\ tts_loop = "sleep"
    /\ enhanced_run = "gather"

\* RealtimeTTSAdapter and its TextToAudioStream: the adapter's fields (is_playing is
\* declared above), the engine's side of the current stream, and the last call made
\* on the adapter with the state it found
VARIABLES
    stream,
    current_mode,
    total_characters_processed,
    first_audio_generated,
    stream_playing,
    stream_fed,
    streams_created,
    call

ttsVars == <<stream, current_mode, total_characters_processed, first_audio_generated,
             stream_playing, stream_fed, streams_created, call>>

NoCall == [op |-> "none"]

\* RealtimeTTSAdapter.__init__
TtsInit ==
    /\ stream = 1
    /\ current_mode = "BLOCKING"
    /\ total_characters_processed = 0
    /\ first_audio_generated = FALSE
    /\ stream_playing = FALSE
    /\ stream_fed = <<>>
    /\ streams_created = 1
    /\ call = NoCall

\* VoiceAgent's audio path: audio_chunks_queue, the position of
\* process_audio_chunks_task, what reached the recorder, the frames received so far,
\* the last call of feed_audio_chunk and the exceptions of websocket.receive
VARIABLES
    audio_chunks_queue,
    fed_chunks,
    chunk_task,
    frames,
    feed_call,
    receive_errors

chunkVars == <<audio_chunks_queue, fed_chunks, chunk_task, frames, feed_call, receive_errors>>

\* VoiceAgent.__init__ and the first test of `while not self.shutdown_requested`
ChunkInit ==
    /\ audio_chunks_queue = <<>>
    /\ fed_chunks = <<>>
    /\ chunk_task = "get"
    /\ frames = 0
    /\ feed_call = [chunk |-> 0]
    /\ receive_errors = 0

\* VoiceAgent: the texts put into transcription_queue, each with whether a stream was
\* live at that moment, and the texts passed to _process_user_input, in order
VARIABLES
    put_log,
    processed

turnVars == <<put_log, processed>>

TurnInit ==
    /\ put_log = <<>>
    /\ processed = <<>>

VARIABLES
    enqueued,               \* history variable: the messages put into message_queue, in order
    delivered               \* history variable: the messages websocket.send_json has sent

outVars == <<enqueued, delivered>>

OutInit ==
    /\ enqueued = <<>>
    /\ delivered = <<>>

\* TranscriptionProcessor at the end of its life: its recorder attribute, the calls
\* of shutdown and of feed_audio
VARIABLES
    recorder_present,       \* self.recorder is not None
    processor_shutdown,     \* TranscriptionProcessor.shutdown: "idle" or inside "recorder".shutdown()
    shutdown_calls,         \* calls of TranscriptionProcessor.shutdown
    fed_log                 \* history variable: the calls of feed_audio, [after, reached]

procVars == <<recorder_present, processor_shutdown, shutdown_calls, fed_log>>

\* _create_recorder has built the AudioToTextRecorder
ProcessorInit ==
    /\ recorder_present = TRUE
    /\ processor_shutdown = "idle"
    /\ shutdown_calls = 0
    /\ fed_log = {}

vars == <<agentVars, voiceVars, faultVars, sttVars, shutVars, evaVars, ttsVars, chunkVars, turnVars, outVars, procVars>>

NoGen == [state |-> "none", user_message |-> <<>>, turn |-> 0, response_content |-> <<>>, events |-> 0]

\* stream(): the body up to the first await of astream_events
GenStart(user_message, turn) ==
    [state |-> "running", user_message |-> user_message, turn |-> turn,
     response_content |-> <<>>, events |-> 0]

StreamMessages(user_message, turn) ==
    GetRecentHistory(conversation_history, max_history_turns) \o <<HumanMessage(user_message, turn)>>

\* history after the stream ran to exhaustion
HistoryAfterExhaustion(g) ==
    IF Strip(g.response_content) # <<>>
    THEN UpdateHistory(conversation_history, max_history_turns, g.user_message,
                       Strip(g.response_content), g.turn)
    ELSE conversation_history

\* history after astream_events raised
HistoryAfterError(g) ==
    UpdateHistory(conversation_history, max_history_turns, g.user_message, ErrorMsg, g.turn)

LogEntry(g, outcome) ==
    [turn |-> g.turn, user_message |-> g.user_message,
     response_content |-> g.response_content, outcome |-> outcome]

\* ------------------------------------------------------------------------
\* LangGraphAgent driven directly (scripts/agent/*.py): invoke, stream and
\* clear_history called one after the other by a single caller
\* ------------------------------------------------------------------------
NoInput == [messages |-> <<>>, history_before |-> <<>>]

AgentInput(user_message, turn) ==
    [messages |-> StreamMessages(user_message, turn), history_before |-> conversation_history]

\* the user messages of the example scripts
ScriptTexts == {<<"h", "i">>}

\* what agent.ainvoke returns: result["messages"]
InvokeMessage == [content : ChunkContents, tool_calls : BOOLEAN]

InvokeResults == {<<>>} \cup {<<m>> : m \in InvokeMessage}
                        \cup {<<m1, m2>> : m1 \in InvokeMessage, m2 \in {[content |-> c, tool_calls |-> FALSE] : c \in ChunkContents}}

\* invoke(): the final AI message of the result, else the last message, else the default text
ExtractResponse(result) ==
    LET good == {i \in 1..Len(result) : Strip(result[i].content) # <<>> /\ ~result[i].tool_calls}
        last == CHOOSE i \in good : \A j \in good : j <= i
        found == IF good # {} THEN result[last].content
                 ELSE IF result # <<>> THEN result[Len(result)].content
                 ELSE <<>>
    IN  IF found = <<>> THEN NoResponseMsg ELSE found

IdleCallback == [pc |-> "idle", step |-> 0]

\* the None that stt_loop puts into input_queue
None == <<"None">>

\* the state of a freshly constructed agent, RealtimeTTSAdapter and queues
VoiceInit ==
    /\ utterances = 0
    /\ recording = FALSE
    /\ cb = IdleCallback
    /\ transcription_queue = <<>>
    /\ message_queue = <<>>
    /\ sent = <<>>
    /\ scheduled = <<>>
    /\ tts_to_client = FALSE
    /\ shutdown_requested = FALSE
    /\ text_task = "top"
    /\ input_queue = <<>>
    /\ agent_loop = "get"
    /\ stt_loop = "running"
    /\ first_chunk = TRUE
    /\ is_playing = FALSE
    /\ engine_playing = FALSE
    /\ engine_buffer = <<>>
    /\ streams = {}
    /\ interrupted = {}
    /\ stopped = {}
    /\ plays = {}
    /\ late_output = {}
    /\ yielded = 0
    /\ rs_stop_called = 0
    /\ rs_scheduled = 0
    /\ rs_enqueued = 0

LangGraphInit(maxTurns) ==
    /\ max_history_turns \in maxTurns
    /\ conversation_history = <<>>
    /\ gen = NoGen
    /\ agent_input = NoInput
    /\ calls = 0
    /\ turnLog = <<>>

TaskNames == {"incoming_data", "audio_chunks", "text_messages", "tts_chunks"}

\* run_conversation up to asyncio.wait, TranscriptionProcessor.__init__ for the threads
ShutInit ==
    /\ tasks = [t \in TaskNames |-> "running"]
    /\ run_conversation = "wait"
    /\ transcription_task = "running"
    /\ transcribe_thread = "blocked"
    /\ shutdown_performed = FALSE
    /\ recorder_shutdowns = 0
    /\ monitor_thread = "polling"

\* TranscriptionProcessor.__init__, and run_conversation up to start_transcription_task
SttInit ==
    /\ recorder = [utt |-> 0, phase |-> "idle", elapsed |-> 0]
    /\ text_call = "blocked"
    /\ realtime_text = <<>>
    /\ final_transcription = <<>>
    /\ silence_time = FALSE
    /\ hot = FALSE
    /\ silences = 0
    /\ produced = <<>>
    /\ finals = <<>>
    /\ client = <<>>
    /\ accesses = {}

AgentInit ==
    /\ app = "script"
    /\ LangGraphInit(0..MaxHistoryTurns)
    /\ VoiceInit
    /\ faults = {}
    /\ SttInit
    /\ ShutInit
    /\ EnhancedInit
    /\ TtsInit
    /\ ChunkInit
    /\ TurnInit
    /\ OutInit
    /\ ProcessorInit

CallStream(text) ==
    /\ gen.state = "none"
    /\ calls < MaxCalls
    /\ calls' = calls + 1
    /\ gen' = GenStart(text, calls + 1)
    /\ agent_input' = AgentInput(text, calls + 1)
    /\ UNCHANGED <<max_history_turns, conversation_history, turnLog>>

\* an on_chat_model_stream event: a non-empty content is accumulated and yielded
StreamChunk(content) ==
    /\ gen.state = "running"
    /\ gen.events < MaxEvents
    /\ gen' = [gen EXCEPT !.events = @ + 1, !.response_content = @ \o content]
    /\ UNCHANGED <<max_history_turns, conversation_history, agent_input, calls, turnLog>>

\* an on_tool_start event: printed only
StreamToolStart ==
    /\ gen.state = "running"
    /\ gen.events < MaxEvents
    /\ gen' = [gen EXCEPT !.events = @ + 1]
    /\ UNCHANGED <<max_history_turns, conversation_history, agent_input, calls, turnLog>>

StreamExhaust ==
    /\ gen.state = "running"
    /\ conversation_history' = HistoryAfterExhaustion(gen)
    /\ turnLog' = Append(turnLog, LogEntry(gen, "completed"))
    /\ gen' = NoGen
    /\ UNCHANGED <<max_history_turns, agent_input, calls>>

\* astream_events raises: the history is updated, then the error text is yielded
StreamRaise ==
    /\ gen.state = "running"
    /\ conversation_history' = HistoryAfterError(gen)
    /\ turnLog' = Append(turnLog, LogEntry(gen, "failed"))
    /\ gen' = [gen EXCEPT !.state = "failed"]
    /\ UNCHANGED <<max_history_turns, agent_input, calls>>

\* the generator returns after the error text was taken
StreamEndAfterError ==
    /\ gen.state = "failed"
    /\ gen' = NoGen
    /\ UNCHANGED <<max_history_turns, conversation_history, agent_input, calls, turnLog>>

\* the consumer stops iterating (aclose, or its task is cancelled)
StreamAbandon ==
    /\ gen.state = "running"
    /\ turnLog' = Append(turnLog, LogEntry(gen, "abandoned"))
    /\ gen' = NoGen
    /\ UNCHANGED <<max_history_turns, conversation_history, agent_input, calls>>

Invoke(text, result, raises) ==
    /\ gen.state = "none"
    /\ calls < MaxCalls
    /\ calls' = calls + 1
    /\ agent_input' = AgentInput(text, calls + 1)
    /\ LET response == IF raises THEN ErrorMsg ELSE ExtractResponse(result)
       IN  /\ conversation_history' =
                UpdateHistory(conversation_history, max_history_turns, text, response, calls + 1)
           /\ turnLog' = Append(turnLog,
                [turn |-> calls + 1, user_message |-> text, response_content |-> response,
                 outcome |-> "invoked"])
    /\ UNCHANGED <<max_history_turns, gen>>

ClearHistory ==
    /\ conversation_history # <<>>
    /\ conversation_history' = <<>>
    /\ turnLog' = <<>>
    /\ UNCHANGED <<max_history_turns, gen, agent_input, calls>>

\* the variables the script leaves alone
AgentFrame == UNCHANGED <<voiceVars, faultVars, sttVars, shutVars, evaVars, ttsVars, chunkVars, turnVars, outVars, procVars>>

AgentNext ==
    \/ \E text \in ScriptTexts : CallStream(text) /\ AgentFrame
    \/ \E content \in ChunkContents : StreamChunk(content) /\ AgentFrame
    \/ StreamToolStart /\ AgentFrame
    \/ StreamExhaust /\ AgentFrame
    \/ StreamRaise /\ AgentFrame
    \/ StreamEndAfterError /\ AgentFrame
    \/ StreamAbandon /\ AgentFrame
    \/ \E text \in ScriptTexts, result \in InvokeResults, raises \in BOOLEAN : Invoke(text, result, raises) /\ AgentFrame
    \/ ClearHistory /\ AgentFrame

SpecAgent == AgentInit /\ [][AgentNext]_vars

\* ------------------------------------------------------------------------
\* The STT thread: the recorder and the callbacks it calls
\* ------------------------------------------------------------------------
\* a callback that would schedule the coroutine before it stops the playback
RecordingStartSteps_ScheduleFirst ==
    IF app = "VoiceAgent" THEN <<"schedule", "stop_playing">> ELSE <<"stop_playing">>

\* the calls of the recording_start callback, in the order it makes them
RecordingStartSteps ==
    IF app = "VoiceAgent" THEN <<"stop_playing", "schedule">> ELSE <<"stop_playing">>

\* the callback's position once its step number `step` has ended
AfterStep(step) ==
    IF step < Len(RecordingStartSteps)
    THEN [pc |-> RecordingStartSteps[step + 1], step |-> step + 1]
    ELSE IdleCallback

\* the messages of a live turn waiting in message_queue are due to be flushed
MarkDueFlush(queue) ==
    [i \in 1..Len(queue) |->
        IF queue[i].turn \in streams /\ queue[i].type \in {"assistant_partial", "tts_chunk"}
        THEN [queue[i] EXCEPT !.due_flush = TRUE]
        ELSE queue[i]]

\* the recorder detects voice and calls its on_recording_start callback
RecordingStart ==
    /\ app \in {"VoiceAgent", "EnhancedVoiceAgent"}
    /\ cb.pc = "idle"
    /\ ~recording
    /\ stt_loop = "running"
    /\ utterances < MaxUtterances
    /\ utterances' = utterances + 1
    /\ recording' = TRUE
    /\ cb' = AfterStep(0)
    /\ interrupted' = interrupted \cup streams
    /\ message_queue' = MarkDueFlush(message_queue)
    /\ UNCHANGED <<agentVars, app, transcription_queue, sent, scheduled, tts_to_client,
                   shutdown_requested, text_task, input_queue, agent_loop, stt_loop, first_chunk,
                   is_playing, engine_playing, engine_buffer, streams, stopped, plays, late_output,
                   yielded, rs_stop_called, rs_scheduled, rs_enqueued>>

\* stop_playing on the STT thread: the test of is_playing and stream.stop(),
\* which ends the playback and drops the text not yet spoken
StopPlayingStop ==
    /\ cb.pc = "stop_playing"
    /\ rs_stop_called' = rs_stop_called + 1
    /\ cb' = [cb EXCEPT !.pc = "stop_reset"]
    /\ IF is_playing
       THEN /\ engine_playing' = FALSE
            /\ engine_buffer' = <<>>
            /\ stopped' = stopped \cup {t \in streams : \E p \in plays : p.turn = t}
       ELSE UNCHANGED <<engine_playing, engine_buffer, stopped>>
    /\ UNCHANGED <<agentVars, app, utterances, recording, transcription_queue, message_queue, sent,
                   scheduled, tts_to_client, shutdown_requested, text_task, input_queue,
                   agent_loop, stt_loop, first_chunk, is_playing, streams, interrupted, plays,
                   late_output, yielded, rs_scheduled, rs_enqueued>>

\* stop_playing on the STT thread: is_playing = False
StopPlayingReset ==
    /\ cb.pc = "stop_reset"
    /\ is_playing' = FALSE
    /\ cb' = AfterStep(cb.step)
    /\ UNCHANGED <<agentVars, app, utterances, recording, transcription_queue, message_queue, sent,
                   scheduled, tts_to_client, shutdown_requested, text_task, input_queue,
                   agent_loop, stt_loop, first_chunk, engine_playing, engine_buffer, streams,
                   interrupted, stopped, plays, late_output, yielded, rs_stop_called, rs_scheduled,
                   rs_enqueued>>

\* run_coroutine_threadsafe(self.callbacks.on_recording_start(), self.loop)
ScheduleRecordingStart ==
    /\ cb.pc = "schedule"
    /\ scheduled' = Append(scheduled, [kind |-> "on_recording_start", text |-> <<>>])
    /\ rs_scheduled' = rs_scheduled + 1
    /\ cb' = AfterStep(cb.step)
    /\ UNCHANGED <<agentVars, app, utterances, recording, transcription_queue, message_queue, sent,
                   tts_to_client, shutdown_requested, text_task, input_queue, agent_loop, stt_loop,
                   first_chunk, is_playing, engine_playing, engine_buffer, streams, interrupted,
                   stopped, plays, late_output, yielded, rs_stop_called, rs_enqueued>>

\* a queue that keeps only the item put last
PutNowait_LatestWins(queue, item) == <<item>>

\* asyncio.Queue.put_nowait on an unbounded queue
PutNowait(queue, item) == Append(queue, item)

\* VoiceAgent._on_final_transcription, called by the recorder with the final text
FinalTranscription(text) ==
    /\ app = "VoiceAgent"
    /\ cb.pc = "idle"
    /\ recording
    /\ recording' = FALSE
    /\ transcription_queue' = PutNowait(transcription_queue, text)
    /\ scheduled' = Append(scheduled, [kind |-> "on_final_transcription", text |-> text])
    /\ UNCHANGED <<agentVars, app, utterances, cb, message_queue, sent, tts_to_client,
                   shutdown_requested, text_task, input_queue, agent_loop, stt_loop, first_chunk,
                   is_playing, engine_playing, engine_buffer, streams, interrupted, stopped, plays,
                   late_output, yielded, rs_stop_called, rs_scheduled, rs_enqueued>>

\* the utterance held no speech that could be transcribed
NoSpeech ==
    /\ app \in {"VoiceAgent", "EnhancedVoiceAgent"}
    /\ cb.pc = "idle"
    /\ recording
    /\ recording' = FALSE
    /\ UNCHANGED <<agentVars, app, utterances, cb, transcription_queue, message_queue, sent,
                   scheduled, tts_to_client, shutdown_requested, text_task, input_queue,
                   agent_loop, stt_loop, first_chunk, is_playing, engine_playing, engine_buffer,
                   streams, interrupted, stopped, plays, late_output, yielded, rs_stop_called,
                   rs_scheduled, rs_enqueued>>

\* ------------------------------------------------------------------------
\* VoiceAgent: the tasks of the event loop
\* ------------------------------------------------------------------------
Lower(c) ==
    CASE c = "E" -> "e" [] c = "X" -> "x" [] c = "I" -> "i" [] c = "T" -> "t" [] OTHER -> c

LowerText(s) == [i \in 1..Len(s) |-> Lower(s[i])]

ExitCommands == {<<"e", "x", "i", "t">>, <<"q", "u", "i", "t">>,
                 <<"g", "o", "o", "d", "b", "y", "e">>, <<"s", "t", "o", "p">>}

\* a comparison that trims the text but keeps its case
IsExit_CaseSensitive(text) == Strip(text) \in ExitCommands

\* user_input.lower().strip() in ["exit", "quit", "goodbye", "stop"]
IsExit(text) == Strip(LowerText(text)) \in ExitCommands

Message(type, content, turn) ==
    [type |-> type, content |-> content, turn |-> turn, due_flush |-> FALSE]

\* the chunks stream() yields: `if chunk.content` drops the empty ones
YieldedChunks == ChunkContents \ {<<>>}

\* the tokens of a turn handled after a recording_start fired during the turn
LateOutput(turn, kinds) ==
    IF turn \in interrupted THEN {[turn |-> turn, kind |-> k] : k \in kinds} ELSE {}

\* send_text_messages_task is suspended in an await: the loop can run another task
LoopFree == text_task \in {"stream", "send", "done"}

\* a loop that would take a transcription while a stream is still consumed
CanStartTurn_WhileStreaming == text_task \in {"top", "stream"}

\* send_text_messages_task takes a transcription only at the head of its loop
CanStartTurn == text_task = "top"

\* while not self.shutdown_requested
TextTaskEnds ==
    /\ app = "VoiceAgent"
    /\ text_task = "top"
    /\ shutdown_requested
    /\ text_task' = "done"
    /\ UNCHANGED <<agentVars, app, utterances, recording, cb, transcription_queue, message_queue,
                   sent, scheduled, tts_to_client, shutdown_requested, input_queue, agent_loop,
                   stt_loop, first_chunk, is_playing, engine_playing, engine_buffer, streams,
                   interrupted, stopped, plays, late_output, yielded, rs_stop_called, rs_scheduled,
                   rs_enqueued>>

\* transcription_queue.get_nowait() raises QueueEmpty
NoTranscription ==
    /\ app = "VoiceAgent"
    /\ text_task = "top"
    /\ ~shutdown_requested
    /\ transcription_queue = <<>>
    /\ text_task' = "send"
    /\ UNCHANGED <<agentVars, app, utterances, recording, cb, transcription_queue, message_queue,
                   sent, scheduled, tts_to_client, shutdown_requested, input_queue, agent_loop,
                   stt_loop, first_chunk, is_playing, engine_playing, engine_buffer, streams,
                   interrupted, stopped, plays, late_output, yielded, rs_stop_called, rs_scheduled,
                   rs_enqueued>>

\* _process_user_input on an exit command
ExitCommand ==
    /\ app = "VoiceAgent"
    /\ CanStartTurn
    /\ ~shutdown_requested
    /\ transcription_queue # <<>>
    /\ IsExit(Head(transcription_queue))
    /\ transcription_queue' = Tail(transcription_queue)
    /\ shutdown_requested' = TRUE
    /\ text_task' = "send"
    /\ UNCHANGED <<agentVars, app, utterances, recording, cb, message_queue, sent, scheduled,
                   tts_to_client, input_queue, agent_loop, stt_loop, first_chunk, is_playing,
                   engine_playing, engine_buffer, streams, interrupted, stopped, plays,
                   late_output, yielded, rs_stop_called, rs_scheduled, rs_enqueued>>

\* _process_user_input up to the first await of the agent's stream
StartTurn ==
    /\ app = "VoiceAgent"
    /\ CanStartTurn
    /\ ~shutdown_requested
    /\ transcription_queue # <<>>
    /\ ~IsExit(Head(transcription_queue))
    /\ transcription_queue' = Tail(transcription_queue)
    /\ calls' = calls + 1
    /\ gen' = GenStart(Head(transcription_queue), calls + 1)
    /\ agent_input' = AgentInput(Head(transcription_queue), calls + 1)
    /\ streams' = streams \cup {calls + 1}
    /\ text_task' = "stream"
    /\ UNCHANGED <<max_history_turns, conversation_history, turnLog, app, utterances, recording,
                   cb, message_queue, sent, scheduled, tts_to_client, shutdown_requested,
                   input_queue, agent_loop, stt_loop, first_chunk, is_playing, engine_playing,
                   engine_buffer, interrupted, stopped, plays, late_output, yielded,
                   rs_stop_called, rs_scheduled, rs_enqueued>>

\* the body of the async for of _process_user_input for one yielded chunk:
\* on_partial_assistant_text, then _generate_tts_chunk up to is_playing = True
Consume(chunk, turn) ==
    /\ message_queue' = Append(message_queue, Message("assistant_partial", chunk, turn))
    /\ late_output' = late_output \cup
            LateOutput(turn, {"assistant_partial"} \cup
                             (IF Strip(chunk) # <<>> THEN {"feed_text"} ELSE {}))
    /\ IF Strip(chunk) # <<>>
       THEN /\ engine_buffer' = Append(engine_buffer, [turn |-> turn, text |-> chunk])
            /\ IF ~tts_to_client
               THEN is_playing' = TRUE /\ text_task' = "play"
               ELSE UNCHANGED is_playing /\ text_task' = "stream"
       ELSE UNCHANGED <<engine_buffer, is_playing>> /\ text_task' = "stream"

\* the turn's stream yields a chunk
TurnChunk(content) ==
    /\ app = "VoiceAgent"
    /\ text_task = "stream"
    /\ gen.state = "running"
    /\ yielded < MaxYields
    /\ yielded' = yielded + 1
    /\ gen' = [gen EXCEPT !.events = @ + 1, !.response_content = @ \o content]
    /\ Consume(content, gen.turn)
    /\ UNCHANGED <<max_history_turns, conversation_history, agent_input, calls, turnLog, app,
                   utterances, recording, cb, transcription_queue, sent, scheduled, tts_to_client,
                   shutdown_requested, input_queue, agent_loop, stt_loop, first_chunk,
                   engine_playing, streams, interrupted, stopped, plays, rs_stop_called,
                   rs_scheduled, rs_enqueued>>

\* the agent's stream raises: stream() records the error text and yields it
TurnRaise ==
    /\ app = "VoiceAgent"
    /\ text_task = "stream"
    /\ gen.state = "running"
    /\ yielded < MaxYields
    /\ yielded' = yielded + 1
    /\ conversation_history' = HistoryAfterError(gen)
    /\ turnLog' = Append(turnLog, LogEntry(gen, "failed"))
    /\ gen' = [gen EXCEPT !.state = "failed"]
    /\ Consume(ErrorMsg, gen.turn)
    /\ UNCHANGED <<max_history_turns, agent_input, calls, app, utterances, recording, cb,
                   transcription_queue, sent, scheduled, tts_to_client, shutdown_requested,
                   input_queue, agent_loop, stt_loop, first_chunk, engine_playing, streams,
                   interrupted, stopped, plays, rs_stop_called, rs_scheduled, rs_enqueued>>

\* play_stream_async after is_playing = True: stream.play_async(), then
\* on_first_audio_chunk_synthesized
TurnPlay ==
    /\ app = "VoiceAgent"
    /\ text_task = "play"
    /\ engine_playing' = TRUE
    /\ tts_to_client' = TRUE
    /\ message_queue' = Append(message_queue, Message("tts_start", <<>>, gen.turn))
    /\ plays' = plays \cup {[turn |-> gen.turn, again |-> gen.turn \in stopped]}
    /\ text_task' = "stream"
    /\ UNCHANGED <<agentVars, app, utterances, recording, cb, transcription_queue, sent, scheduled,
                   shutdown_requested, input_queue, agent_loop, stt_loop, first_chunk, is_playing,
                   engine_buffer, streams, interrupted, stopped, late_output, yielded,
                   rs_stop_called, rs_scheduled, rs_enqueued>>

\* the stream is exhausted: stream() updates the history, _process_user_input
\* sends the final answer and returns
TurnExhaust ==
    /\ app = "VoiceAgent"
    /\ text_task = "stream"
    /\ gen.state \in {"running", "failed"}
    /\ IF gen.state = "running"
       THEN /\ conversation_history' = HistoryAfterExhaustion(gen)
            /\ turnLog' = Append(turnLog, LogEntry(gen, "completed"))
       ELSE UNCHANGED <<conversation_history, turnLog>>
    /\ gen' = NoGen
    /\ streams' = streams \ {gen.turn}
    /\ message_queue' = Append(message_queue, Message("assistant_complete", <<>>, gen.turn))
    /\ text_task' = "send"
    /\ UNCHANGED <<max_history_turns, agent_input, calls, app, utterances, recording, cb,
                   transcription_queue, sent, scheduled, tts_to_client, shutdown_requested,
                   input_queue, agent_loop, stt_loop, first_chunk, is_playing, engine_playing,
                   engine_buffer, interrupted, stopped, plays, late_output, yielded,
                   rs_stop_called, rs_scheduled, rs_enqueued>>

\* a queue whose get() returns the item put last
QueueGet_Newest(queue) ==
    [item |-> queue[Len(queue)], rest |-> SubSeq(queue, 1, Len(queue) - 1)]

\* asyncio.Queue.get on a non-empty queue: the item put first
QueueGet(queue) == [item |-> Head(queue), rest |-> Tail(queue)]

\* message_queue.get() returns a message and websocket.send_json sends it
SendMessage ==
    /\ app = "VoiceAgent"
    /\ text_task = "send"
    /\ message_queue # <<>>
    /\ sent' = <<QueueGet(message_queue).item>>
    /\ message_queue' = QueueGet(message_queue).rest
    /\ text_task' = "top"
    /\ UNCHANGED <<agentVars, app, utterances, recording, cb, transcription_queue, scheduled,
                   tts_to_client, shutdown_requested, input_queue, agent_loop, stt_loop,
                   first_chunk, is_playing, engine_playing, engine_buffer, streams, interrupted,
                   stopped, plays, late_output, yielded, rs_stop_called, rs_scheduled, rs_enqueued>>

\* message_queue.get() times out after 0.1 s and the loop has something to do
SendTimeout ==
    /\ app = "VoiceAgent"
    /\ text_task = "send"
    /\ message_queue = <<>>
    /\ shutdown_requested \/ transcription_queue # <<>>
    /\ text_task' = "top"
    /\ UNCHANGED <<agentVars, app, utterances, recording, cb, transcription_queue, message_queue,
                   sent, scheduled, tts_to_client, shutdown_requested, input_queue, agent_loop,
                   stt_loop, first_chunk, is_playing, engine_playing, engine_buffer, streams,
                   interrupted, stopped, plays, late_output, yielded, rs_stop_called, rs_scheduled,
                   rs_enqueued>>

\* the loop runs a coroutine scheduled from the STT thread
RunScheduled ==
    /\ app = "VoiceAgent"
    /\ LoopFree
    /\ scheduled # <<>>
    /\ scheduled' = Tail(scheduled)
    /\ IF Head(scheduled).kind = "on_recording_start"
       THEN /\ tts_to_client' = FALSE
            /\ message_queue' = Append(message_queue, Message("recording_start", <<>>, 0))
            /\ rs_enqueued' = rs_enqueued + 1
       ELSE /\ message_queue' = Append(message_queue,
                    Message("final_transcription", Head(scheduled).text, 0))
            /\ UNCHANGED <<tts_to_client, rs_enqueued>>
    /\ UNCHANGED <<agentVars, app, utterances, recording, cb, transcription_queue, sent,
                   shutdown_requested, text_task, input_queue, agent_loop, stt_loop, first_chunk,
                   is_playing, engine_playing, engine_buffer, streams, interrupted, stopped, plays,
                   late_output, yielded, rs_stop_called, rs_scheduled>>

\* send_tts_chunks_task: tts_chunks_queue is empty and the generation is complete
TtsChunksComplete ==
    /\ app = "VoiceAgent"
    /\ LoopFree
    /\ ~shutdown_requested
    /\ tts_to_client
    /\ ~is_playing
    /\ message_queue' = Append(message_queue, Message("assistant_complete", <<>>, 0))
    /\ tts_to_client' = FALSE
    /\ UNCHANGED <<agentVars, app, utterances, recording, cb, transcription_queue, sent, scheduled,
                   shutdown_requested, text_task, input_queue, agent_loop, stt_loop, first_chunk,
                   is_playing, engine_playing, engine_buffer, streams, interrupted, stopped, plays,
                   late_output, yielded, rs_stop_called, rs_scheduled, rs_enqueued>>

\* ------------------------------------------------------------------------
\* EnhancedVoiceAgent: stt_loop and agent_loop
\* ------------------------------------------------------------------------
\* agent_loop is suspended in an await
AgentLoopFree == agent_loop \in {"get", "stream", "done"}

\* a clear_queues that leaves the queue as it is
ClearQueues_Nothing(queue) == queue

\* clear_queues: get_nowait until the queue is empty
ClearQueues(queue) == <<>>

\* stt_loop: get_text_blocking returns a transcription: stop_playing, clear_queues,
\* input_queue.put(text), and put(None) after an exit command
SttLoopText(text) ==
    /\ app = "EnhancedVoiceAgent"
    /\ stt_loop = "running"
    /\ AgentLoopFree
    /\ cb.pc = "idle"
    /\ recording
    /\ recording' = FALSE
    /\ IF is_playing
       THEN /\ engine_playing' = FALSE
            /\ engine_buffer' = <<>>
       ELSE UNCHANGED <<engine_playing, engine_buffer>>
    /\ is_playing' = FALSE
    /\ input_queue' = IF IsExit(text)
                      THEN Append(Append(ClearQueues(input_queue), text), None)
                      ELSE Append(ClearQueues(input_queue), text)
    /\ stt_loop' = IF IsExit(text) THEN "done" ELSE "running"
    /\ UNCHANGED <<agentVars, app, utterances, cb, transcription_queue, message_queue, sent,
                   scheduled, tts_to_client, shutdown_requested, text_task, agent_loop,
                   first_chunk, streams, interrupted, stopped, plays, late_output, yielded,
                   rs_stop_called, rs_scheduled, rs_enqueued>>

\* agent_loop: input_queue.get() returns None
AgentLoopEnds ==
    /\ app = "EnhancedVoiceAgent"
    /\ agent_loop = "get"
    /\ input_queue # <<>>
    /\ Head(input_queue) = None
    /\ input_queue' = Tail(input_queue)
    /\ agent_loop' = "done"
    /\ UNCHANGED <<agentVars, app, utterances, recording, cb, transcription_queue, message_queue,
                   sent, scheduled, tts_to_client, shutdown_requested, text_task, stt_loop,
                   first_chunk, is_playing, engine_playing, engine_buffer, streams, interrupted,
                   stopped, plays, late_output, yielded, rs_stop_called, rs_scheduled, rs_enqueued>>

\* agent_loop: input_queue.get() returns a text, up to the first await of the stream
AgentLoopGet ==
    /\ app = "EnhancedVoiceAgent"
    /\ agent_loop = "get"
    /\ input_queue # <<>>
    /\ Head(input_queue) # None
    /\ input_queue' = Tail(input_queue)
    /\ calls' = calls + 1
    /\ gen' = GenStart(Head(input_queue), calls + 1)
    /\ agent_input' = AgentInput(Head(input_queue), calls + 1)
    /\ streams' = streams \cup {calls + 1}
    /\ first_chunk' = TRUE
    /\ agent_loop' = "stream"
    /\ UNCHANGED <<max_history_turns, conversation_history, turnLog, app, utterances, recording,
                   cb, transcription_queue, message_queue, sent, scheduled, tts_to_client,
                   shutdown_requested, text_task, stt_loop, is_playing, engine_playing,
                   engine_buffer, interrupted, stopped, plays, late_output, yielded,
                   rs_stop_called, rs_scheduled, rs_enqueued>>

\* the body of the async for of agent_loop for one yielded chunk: feed_text,
\* then play_stream_async up to is_playing = True
AgentLoopConsume(chunk, turn) ==
    /\ engine_buffer' = Append(engine_buffer, [turn |-> turn, text |-> chunk])
    /\ late_output' = late_output \cup LateOutput(turn, {"feed_text"})
    /\ first_chunk' = FALSE
    /\ IF first_chunk
       THEN is_playing' = TRUE /\ agent_loop' = "play"
       ELSE UNCHANGED is_playing /\ agent_loop' = "stream"

AgentLoopChunk(content) ==
    /\ app = "EnhancedVoiceAgent"
    /\ agent_loop = "stream"
    /\ gen.state = "running"
    /\ yielded < MaxYields
    /\ yielded' = yielded + 1
    /\ gen' = [gen EXCEPT !.events = @ + 1, !.response_content = @ \o content]
    /\ AgentLoopConsume(content, gen.turn)
    /\ UNCHANGED <<max_history_turns, conversation_history, agent_input, calls, turnLog, app,
                   utterances, recording, cb, transcription_queue, message_queue, sent, scheduled,
                   tts_to_client, shutdown_requested, text_task, input_queue, stt_loop,
                   engine_playing, streams, interrupted, stopped, plays, rs_stop_called,
                   rs_scheduled, rs_enqueued>>

AgentLoopRaise ==
    /\ app = "EnhancedVoiceAgent"
    /\ agent_loop = "stream"
    /\ gen.state = "running"
    /\ yielded < MaxYields
    /\ yielded' = yielded + 1
    /\ conversation_history' = HistoryAfterError(gen)
    /\ turnLog' = Append(turnLog, LogEntry(gen, "failed"))
    /\ gen' = [gen EXCEPT !.state = "failed"]
    /\ AgentLoopConsume(ErrorMsg, gen.turn)
    /\ UNCHANGED <<max_history_turns, agent_input, calls, app, utterances, recording, cb,
                   transcription_queue, message_queue, sent, scheduled, tts_to_client,
                   shutdown_requested, text_task, input_queue, stt_loop, engine_playing, streams,
                   interrupted, stopped, plays, rs_stop_called, rs_scheduled, rs_enqueued>>

\* play_stream_async after is_playing = True: stream.play_async()
AgentLoopPlay ==
    /\ app = "EnhancedVoiceAgent"
    /\ agent_loop = "play"
    /\ engine_playing' = TRUE
    /\ plays' = plays \cup {[turn |-> gen.turn, again |-> gen.turn \in stopped]}
    /\ agent_loop' = "stream"
    /\ UNCHANGED <<agentVars, app, utterances, recording, cb, transcription_queue, message_queue,
                   sent, scheduled, tts_to_client, shutdown_requested, text_task, input_queue,
                   stt_loop, first_chunk, is_playing, engine_buffer, streams, interrupted, stopped,
                   late_output, yielded, rs_stop_called, rs_scheduled, rs_enqueued>>

\* the stream is exhausted: stream() updates the history, agent_loop feeds ""
AgentLoopExhaust ==
    /\ app = "EnhancedVoiceAgent"
    /\ agent_loop = "stream"
    /\ gen.state \in {"running", "failed"}
    /\ IF gen.state = "running"
       THEN /\ conversation_history' = HistoryAfterExhaustion(gen)
            /\ turnLog' = Append(turnLog, LogEntry(gen, "completed"))
       ELSE UNCHANGED <<conversation_history, turnLog>>
    /\ gen' = NoGen
    /\ streams' = streams \ {gen.turn}
    /\ agent_loop' = "get"
    /\ UNCHANGED <<max_history_turns, agent_input, calls, app, utterances, recording, cb,
                   transcription_queue, message_queue, sent, scheduled, tts_to_client,
                   shutdown_requested, text_task, input_queue, stt_loop, first_chunk, is_playing,
                   engine_playing, engine_buffer, interrupted, stopped, plays, late_output,
                   yielded, rs_stop_called, rs_scheduled, rs_enqueued>>

\* ------------------------------------------------------------------------
\* The TextToAudioStream's own thread
\* ------------------------------------------------------------------------
\* the engine speaks the text it was fed and the playback ends on its own
EngineFinish ==
    /\ engine_playing
    /\ engine_playing' = FALSE
    /\ engine_buffer' = <<>>
    /\ UNCHANGED <<agentVars, app, utterances, recording, cb, transcription_queue, message_queue,
                   sent, scheduled, tts_to_client, shutdown_requested, text_task, input_queue,
                   agent_loop, stt_loop, first_chunk, is_playing, streams, interrupted, stopped,
                   plays, late_output, yielded, rs_stop_called, rs_scheduled, rs_enqueued>>

Init ==
    /\ app \in {"VoiceAgent", "EnhancedVoiceAgent"}
    /\ LangGraphInit({DefaultMaxHistoryTurns})
    /\ VoiceInit
    /\ faults = {}
    /\ SttInit
    /\ ShutInit
    /\ EnhancedInit
    /\ TtsInit
    /\ ChunkInit
    /\ TurnInit
    /\ OutInit
    /\ ProcessorInit

\* the variables the two programs leave alone while the engine never raises
VoiceFrame == UNCHANGED <<faultVars, sttVars, shutVars, evaVars, ttsVars, chunkVars, turnVars, outVars, procVars>>

Next ==
    \/ RecordingStart /\ VoiceFrame
    \/ StopPlayingStop /\ VoiceFrame
    \/ StopPlayingReset /\ VoiceFrame
    \/ ScheduleRecordingStart /\ VoiceFrame
    \/ \E text \in UserTexts : FinalTranscription(text) /\ VoiceFrame
    \/ NoSpeech /\ VoiceFrame
    \/ TextTaskEnds /\ VoiceFrame
    \/ NoTranscription /\ VoiceFrame
    \/ ExitCommand /\ VoiceFrame
    \/ StartTurn /\ VoiceFrame
    \/ \E content \in YieldedChunks : TurnChunk(content) /\ VoiceFrame
    \/ TurnRaise /\ VoiceFrame
    \/ TurnPlay /\ VoiceFrame
    \/ TurnExhaust /\ VoiceFrame
    \/ SendMessage /\ VoiceFrame
    \/ SendTimeout /\ VoiceFrame
    \/ RunScheduled /\ VoiceFrame
    \/ TtsChunksComplete /\ VoiceFrame
    \/ \E text \in UserTexts : SttLoopText(text) /\ VoiceFrame
    \/ AgentLoopEnds /\ VoiceFrame
    \/ AgentLoopGet /\ VoiceFrame
    \/ \E content \in YieldedChunks : AgentLoopChunk(content) /\ VoiceFrame
    \/ AgentLoopRaise /\ VoiceFrame
    \/ AgentLoopPlay /\ VoiceFrame
    \/ AgentLoopExhaust /\ VoiceFrame
    \/ EngineFinish /\ VoiceFrame

Spec == Init /\ [][Next]_vars

\* ------------------------------------------------------------------------
\* Exceptions raised by the TextToAudioStream
\* ------------------------------------------------------------------------
\* a chain that catches nothing
CaughtBy_Nowhere(site) == "nowhere"

\* the innermost try / except around a call into the engine
CaughtBy(site) ==
    CASE site = "feed" -> "feed_text"
      [] site = "play_async" -> "play_stream_async"

\* where the task goes on after an exception at site: at pc when it was caught,
\* out of its coroutine when it was not
Resume(site, pc) == IF CaughtBy(site) = "nowhere" THEN "crashed" ELSE pc

\* a chunk of the turn for which stream.feed raises: feed_text returns False and
\* _generate_tts_chunk logs it, play_stream_async is not called
TurnChunkFeedRaise(content) ==
    /\ app = "VoiceAgent"
    /\ text_task = "stream"
    /\ gen.state = "running"
    /\ yielded < MaxYields
    /\ Strip(content) # <<>>
    /\ yielded' = yielded + 1
    /\ gen' = [gen EXCEPT !.events = @ + 1, !.response_content = @ \o content]
    /\ message_queue' = Append(message_queue, Message("assistant_partial", content, gen.turn))
    /\ late_output' = late_output \cup LateOutput(gen.turn, {"assistant_partial"})
    /\ faults' = faults \cup {[turn |-> gen.turn, site |-> "feed"]}
    /\ text_task' = Resume("feed", "stream")
    /\ UNCHANGED <<max_history_turns, conversation_history, agent_input, calls, turnLog, app,
                   utterances, recording, cb, transcription_queue, sent, scheduled, tts_to_client,
                   shutdown_requested, input_queue, agent_loop, stt_loop, first_chunk,
                   is_playing, engine_playing, engine_buffer, streams, interrupted, stopped,
                   plays, rs_stop_called, rs_scheduled, rs_enqueued>>

\* stream.play_async raises: play_stream_async resets is_playing and returns False,
\* on_first_audio_chunk_synthesized is not called
TurnPlayRaise ==
    /\ app = "VoiceAgent"
    /\ text_task = "play"
    /\ is_playing' = FALSE
    /\ faults' = faults \cup {[turn |-> gen.turn, site |-> "play_async"]}
    /\ text_task' = Resume("play_async", "stream")
    /\ UNCHANGED <<agentVars, app, utterances, recording, cb, transcription_queue,
                   message_queue, sent, scheduled, tts_to_client, shutdown_requested,
                   input_queue, agent_loop, stt_loop, first_chunk, engine_playing,
                   engine_buffer, streams, interrupted, stopped, plays, late_output, yielded,
                   rs_stop_called, rs_scheduled, rs_enqueued>>

\* a chunk of agent_loop for which stream.feed raises: feed_text returns False,
\* agent_loop ignores it and goes on to play_stream_async on the first chunk
AgentLoopChunkFeedRaise(content) ==
    /\ app = "EnhancedVoiceAgent"
    /\ agent_loop = "stream"
    /\ gen.state = "running"
    /\ yielded < MaxYields
    /\ yielded' = yielded + 1
    /\ gen' = [gen EXCEPT !.events = @ + 1, !.response_content = @ \o content]
    /\ faults' = faults \cup {[turn |-> gen.turn, site |-> "feed"]}
    /\ first_chunk' = FALSE
    /\ IF first_chunk /\ CaughtBy("feed") # "nowhere"
       THEN is_playing' = TRUE /\ agent_loop' = "play"
       ELSE UNCHANGED is_playing /\ agent_loop' = Resume("feed", "stream")
    /\ UNCHANGED <<max_history_turns, conversation_history, agent_input, calls, turnLog, app,
                   utterances, recording, cb, transcription_queue, message_queue, sent, scheduled,
                   tts_to_client, shutdown_requested, text_task, input_queue, stt_loop,
                   engine_playing, engine_buffer, streams, interrupted, stopped, plays,
                   late_output, rs_stop_called, rs_scheduled, rs_enqueued>>

\* stream.play_async raises in agent_loop: play_stream_async resets is_playing
AgentLoopPlayRaise ==
    /\ app = "EnhancedVoiceAgent"
    /\ agent_loop = "play"
    /\ is_playing' = FALSE
    /\ faults' = faults \cup {[turn |-> gen.turn, site |-> "play_async"]}
    /\ agent_loop' = Resume("play_async", "stream")
    /\ UNCHANGED <<agentVars, app, utterances, recording, cb, transcription_queue,
                   message_queue, sent, scheduled, tts_to_client, shutdown_requested, text_task,
                   input_queue, stt_loop, first_chunk, engine_playing, engine_buffer, streams,
                   interrupted, stopped, plays, late_output, yielded, rs_stop_called,
                   rs_scheduled, rs_enqueued>>

FaultFrame == UNCHANGED <<sttVars, shutVars, evaVars, ttsVars, chunkVars, turnVars, outVars, procVars>>

NextFaults ==
    \/ Next
    \/ \E content \in YieldedChunks : TurnChunkFeedRaise(content) /\ FaultFrame
    \/ TurnPlayRaise /\ FaultFrame
    \/ \E content \in YieldedChunks : AgentLoopChunkFeedRaise(content) /\ FaultFrame
    \/ AgentLoopPlayRaise /\ FaultFrame

\* the two programs with an engine that may raise
SpecFaults == Init /\ [][NextFaults]_vars

\* ------------------------------------------------------------------------
\* The speech recognition stream: TranscriptionProcessor, its recorder thread, its
\* silence monitor thread, and the callbacks of VoiceAgent they end in
\* ------------------------------------------------------------------------
\* the methods the class TranscriptionProcessor defines
TranscriptionProcessorMethods ==
    {"__init__", "_create_recorder", "process_audio_stream", "transcribe_loop",
     "_start_silence_monitor", "feed_audio", "abort_generation", "shutdown", "get_stats"}

\* len(self.realtime_text.strip()) > 3
MinSpeechLen == 3

\* the silence has lasted more than 0.7 * post_speech_silence_duration
EarlyTrigger == 1

\* the silence has lasted post_speech_silence_duration: the recorder ends the utterance
FullWindow == 2

PartialTexts == {<<"h", "i">>, <<"h", "e", "l", "l", "o">>}

\* what recorder.text hands to its callback; <<>> is an utterance without decodable speech
FinalTexts == {<<>>, <<"h", "e", "l", "l", "o">>}

\* a coroutine of VoiceAgentCallbacks scheduled on the loop, then the message it enqueues
Event(kind, text, utt) == [kind |-> kind, text |-> text, utt |-> utt]

\* the state of the turn processing, which the recognition stream does not touch
voiceRest == <<app, utterances, recording, cb, sent, tts_to_client, shutdown_requested, text_task,
               input_queue, agent_loop, stt_loop, first_chunk, is_playing, engine_playing,
               engine_buffer, streams, interrupted, stopped, plays, late_output, yielded,
               rs_stop_called, rs_scheduled, rs_enqueued>>

\* _on_final_transcription calls transcription_queue.put_nowait on the calling thread
OnFinalQueueAccess(thread) == {[object |-> "transcription_queue", thread |-> thread]}

\* on_final -> AudioInputProcessor._on_full_transcription ->
\* VoiceAgent._on_final_transcription, run by the thread that calls on_final_callback
OnFinal(text, thread) ==
    IF text = <<>>
    THEN UNCHANGED <<final_transcription, finals, transcription_queue, accesses, scheduled>>
    ELSE /\ final_transcription' = text
         /\ finals' = Append(finals, [utt |-> recorder.utt, thread |-> thread, text |-> text,
                                       silence |-> silences])
         /\ transcription_queue' = Append(transcription_queue, text)
         /\ accesses' = accesses \cup OnFinalQueueAccess(thread)
         /\ scheduled' = Append(scheduled, Event("final_transcription", text, recorder.utt))

\* the recorder detects voice: on_vad_detect_stop, then start_recording ->
\* VoiceAgent._on_stt_recording_start
StartRecording ==
    /\ recorder.phase = "idle"
    /\ recorder.utt < MaxUtterances
    /\ recorder' = [utt |-> recorder.utt + 1, phase |-> "speech", elapsed |-> 0]
    /\ silence_time' = FALSE
    /\ scheduled' = Append(scheduled, Event("recording_start", <<>>, recorder.utt + 1))
    /\ UNCHANGED <<agentVars, faultVars, voiceRest, transcription_queue, message_queue,
                   text_call, realtime_text, final_transcription, hot, silences, produced,
                   finals, client, accesses>>

\* on_realtime_transcription_update: on_partial(text) on the recorder's thread sets
\* realtime_text, then calls self._detect_sentence_end (AttributeError when the class
\* has no such method), then realtime_transcription_callback ->
\* VoiceAgent._on_partial_transcription
OnPartial(text) ==
    /\ recorder.phase \in {"speech", "silence"}
    /\ Len(produced) < MaxPartials
    /\ produced' = Append(produced, [utt |-> recorder.utt, text |-> text])
    /\ realtime_text' = text
    /\ IF "_detect_sentence_end" \in TranscriptionProcessorMethods
       THEN scheduled' = Append(scheduled, Event("partial_transcription", text, recorder.utt))
       ELSE UNCHANGED scheduled
    /\ UNCHANGED <<agentVars, faultVars, voiceRest, transcription_queue, message_queue,
                   recorder, text_call, final_transcription, silence_time, hot, silences,
                   finals, client, accesses>>

\* on_vad_detect_start: the speech has ended, a silence starts
VadDetectStart ==
    /\ recorder.phase = "speech"
    /\ silences < MaxSilences
    /\ silences' = silences + 1
    /\ recorder' = [recorder EXCEPT !.phase = "silence", !.elapsed = 0]
    /\ silence_time' = TRUE
    /\ UNCHANGED <<agentVars, faultVars, voiceRest, transcription_queue, message_queue,
                   scheduled, text_call, realtime_text, final_transcription, hot, produced,
                   finals, client, accesses>>

\* on_vad_detect_stop: the speech resumes inside the utterance
VadDetectStop ==
    /\ recorder.phase = "silence"
    /\ recorder' = [recorder EXCEPT !.phase = "speech", !.elapsed = 0]
    /\ silence_time' = FALSE
    /\ UNCHANGED <<agentVars, faultVars, voiceRest, transcription_queue, message_queue,
                   scheduled, text_call, realtime_text, final_transcription, hot, silences,
                   produced, finals, client, accesses>>

\* time passes while silence_time is set
SilencePasses ==
    /\ silence_time
    /\ recorder.elapsed < FullWindow
    /\ recorder' = [recorder EXCEPT !.elapsed = @ + 1]
    /\ UNCHANGED <<agentVars, faultVars, voiceRest, transcription_queue, message_queue,
                   scheduled, text_call, realtime_text, final_transcription, silence_time, hot,
                   silences, produced, finals, client, accesses>>

\* transcribe_loop: recorder.text(self.on_final_callback) calls on_final at the end of
\* the utterance and returns; transcribe_loop and process_audio_stream then return
RecorderText(text) ==
    /\ text_call = "blocked"
    /\ recorder.phase = "silence"
    /\ recorder.elapsed = FullWindow
    /\ OnFinal(text, "transcribe")
    /\ recorder' = [recorder EXCEPT !.phase = "idle"]
    /\ text_call' = "returned"
    /\ UNCHANGED <<agentVars, faultVars, voiceRest, message_queue, realtime_text,
                   silence_time, hot, silences, produced, client>>

\* the recorder ends an utterance while nobody waits in recorder.text
UtteranceEnds ==
    /\ text_call = "returned"
    /\ recorder.phase = "silence"
    /\ recorder.elapsed = FullWindow
    /\ recorder' = [recorder EXCEPT !.phase = "idle"]
    /\ UNCHANGED <<agentVars, faultVars, voiceRest, transcription_queue, message_queue,
                   scheduled, text_call, realtime_text, final_transcription, silence_time, hot,
                   silences, produced, finals, client, accesses>>

\* the silence monitor finds a silence longer than the early trigger time and a
\* meaningful realtime_text: it calls on_final_callback(realtime_text) itself
MonitorTrigger ==
    /\ silence_time
    /\ recorder.elapsed >= EarlyTrigger
    /\ ~hot
    /\ Len(Strip(realtime_text)) > MinSpeechLen
    /\ hot' = TRUE
    /\ OnFinal(realtime_text, "monitor")
    /\ UNCHANGED <<agentVars, faultVars, voiceRest, message_queue, recorder, text_call,
                   realtime_text, silence_time, silences, produced, client>>

\* a monitor that drops its latch on every iteration
SpeechResumed_Always == TRUE

\* the else branch of `if speech_end_silence_start and speech_end_silence_start != 0`
SpeechResumed == ~silence_time

\* the silence monitor finds silence_time unset
MonitorCool ==
    /\ SpeechResumed
    /\ hot
    /\ hot' = FALSE
    /\ UNCHANGED <<agentVars, faultVars, voiceRest, transcription_queue, message_queue,
                   scheduled, recorder, text_call, realtime_text, final_transcription,
                   silence_time, silences, produced, finals, client, accesses>>

\* the loop runs a scheduled coroutine of VoiceAgentCallbacks: message_queue.put
RunCallback ==
    /\ scheduled # <<>>
    /\ scheduled' = Tail(scheduled)
    /\ message_queue' = Append(message_queue, Head(scheduled))
    /\ accesses' = accesses \cup {[object |-> "message_queue", thread |-> "loop"]}
    /\ UNCHANGED <<agentVars, faultVars, voiceRest, transcription_queue, recorder, text_call,
                   realtime_text, final_transcription, silence_time, hot, silences, produced,
                   finals, client>>

\* send_text_messages_task: message_queue.get and websocket.send_json
SendEvent ==
    /\ message_queue # <<>>
    /\ message_queue' = Tail(message_queue)
    /\ client' = Append(client, Head(message_queue))
    /\ accesses' = accesses \cup {[object |-> "message_queue", thread |-> "loop"]}
    /\ UNCHANGED <<agentVars, faultVars, voiceRest, transcription_queue, scheduled, recorder,
                   text_call, realtime_text, final_transcription, silence_time, hot, silences,
                   produced, finals>>

\* the variables the recognition stream leaves alone
SttFrame == UNCHANGED <<shutVars, evaVars, ttsVars, chunkVars, turnVars, outVars, procVars>>

SttNext ==
    \/ StartRecording /\ SttFrame
    \/ \E text \in PartialTexts : OnPartial(text) /\ SttFrame
    \/ VadDetectStart /\ SttFrame
    \/ VadDetectStop /\ SttFrame
    \/ SilencePasses /\ SttFrame
    \/ \E text \in FinalTexts : RecorderText(text) /\ SttFrame
    \/ UtteranceEnds /\ SttFrame
    \/ MonitorTrigger /\ SttFrame
    \/ MonitorCool /\ SttFrame
    \/ RunCallback /\ SttFrame
    \/ SendEvent /\ SttFrame

SttStart ==
    /\ app = "VoiceAgent"
    /\ LangGraphInit({DefaultMaxHistoryTurns})
    /\ VoiceInit
    /\ faults = {}
    /\ SttInit
    /\ ShutInit
    /\ EnhancedInit
    /\ TtsInit
    /\ ChunkInit
    /\ TurnInit
    /\ OutInit
    /\ ProcessorInit

\* the recognition stream of VoiceAgent, with the recorder as its environment
SpecStt == SttStart /\ [][SttNext]_vars

\* ------------------------------------------------------------------------
\* The end of a VoiceAgent session: run_conversation and shutdown
\* ------------------------------------------------------------------------
\* the state of VoiceAgent the end of the session does not touch
voiceButShutdown == <<app, utterances, recording, cb, transcription_queue, message_queue, sent,
                      scheduled, tts_to_client, text_task, input_queue, agent_loop, stt_loop,
                      first_chunk, engine_playing, engine_buffer, streams, interrupted, stopped,
                      plays, late_output, yielded, rs_stop_called, rs_scheduled, rs_enqueued>>

\* process_incoming_data_task: websocket.disconnect
Disconnect ==
    /\ tasks["incoming_data"] = "running"
    /\ shutdown_requested' = TRUE
    /\ tasks' = [tasks EXCEPT !["incoming_data"] = "finished"]
    /\ UNCHANGED <<is_playing, run_conversation, transcription_task, transcribe_thread,
                   shutdown_performed, recorder_shutdowns, monitor_thread>>

\* process_incoming_data_task: an exception in receive or in the handling: break
IncomingError ==
    /\ tasks["incoming_data"] = "running"
    /\ tasks' = [tasks EXCEPT !["incoming_data"] = "finished"]
    /\ UNCHANGED <<shutdown_requested, is_playing, run_conversation, transcription_task,
                   transcribe_thread, shutdown_performed, recorder_shutdowns, monitor_thread>>

\* send_text_messages_task: _process_user_input on an exit command
ExitRequested ==
    /\ tasks["text_messages"] = "running"
    /\ ~shutdown_requested
    /\ shutdown_requested' = TRUE
    /\ UNCHANGED <<is_playing, tasks, run_conversation, transcription_task, transcribe_thread,
                   shutdown_performed, recorder_shutdowns, monitor_thread>>

\* send_text_messages_task: a turn starts the playback
TurnStartsPlayback ==
    /\ tasks["text_messages"] = "running"
    /\ ~is_playing
    /\ is_playing' = TRUE
    /\ UNCHANGED <<shutdown_requested, tasks, run_conversation, transcription_task,
                   transcribe_thread, shutdown_performed, recorder_shutdowns, monitor_thread>>

\* a task finds shutdown_requested at the head of its while loop and returns
TaskLoopEnds(t) ==
    /\ tasks[t] = "running"
    /\ shutdown_requested
    /\ tasks' = [tasks EXCEPT ![t] = "finished"]
    /\ UNCHANGED <<shutdown_requested, is_playing, run_conversation, transcription_task,
                   transcribe_thread, shutdown_performed, recorder_shutdowns, monitor_thread>>

\* recorder.text returns at the end of an utterance: transcribe_loop and
\* process_audio_stream return
TranscribeLoopReturns ==
    /\ transcription_task = "running"
    /\ transcribe_thread = "blocked"
    /\ ~shutdown_performed
    /\ transcribe_thread' = "ended"
    /\ transcription_task' = "finished"
    /\ UNCHANGED <<shutdown_requested, is_playing, tasks, run_conversation, shutdown_performed,
                   recorder_shutdowns, monitor_thread>>

\* a wait that returns once all the tasks are done
ReturnWhen_AllCompleted(ts) == \A t \in TaskNames : ts[t] = "finished"

\* return_when=asyncio.FIRST_COMPLETED
ReturnWhen(ts) == \E t \in TaskNames : ts[t] = "finished"

\* asyncio.wait(tasks, return_when=FIRST_COMPLETED) returns
WaitReturns ==
    /\ run_conversation = "wait"
    /\ ReturnWhen(tasks)
    /\ run_conversation' = "cancel"
    /\ UNCHANGED <<shutdown_requested, is_playing, tasks, transcription_task, transcribe_thread,
                   shutdown_performed, recorder_shutdowns, monitor_thread>>

\* for task in pending: task.cancel(), await task
CancelTask(t) ==
    /\ run_conversation = "cancel"
    /\ tasks[t] = "running"
    /\ tasks' = [tasks EXCEPT ![t] = "cancelled"]
    /\ UNCHANGED <<shutdown_requested, is_playing, run_conversation, transcription_task,
                   transcribe_thread, shutdown_performed, recorder_shutdowns, monitor_thread>>

\* shutdown(): shutdown_requested = True, tts_adapter.stop_playing()
ShutdownStopTts ==
    /\ run_conversation = "cancel"
    /\ \A t \in TaskNames : tasks[t] # "running"
    /\ shutdown_requested' = TRUE
    /\ is_playing' = FALSE
    /\ run_conversation' = "audio_processor"
    /\ UNCHANGED <<tasks, transcription_task, transcribe_thread, shutdown_performed,
                   recorder_shutdowns, monitor_thread>>

\* AudioInputProcessor.shutdown: the transcription task is cancelled and awaited,
\* then TranscriptionProcessor.shutdown sets shutdown_performed and shuts the recorder down
ShutdownAudioProcessor ==
    /\ run_conversation = "audio_processor"
    /\ transcription_task' = IF transcription_task = "running" THEN "cancelled"
                             ELSE transcription_task
    /\ IF ~shutdown_performed
       THEN /\ shutdown_performed' = TRUE
            /\ recorder_shutdowns' = recorder_shutdowns + 1
       ELSE UNCHANGED <<shutdown_performed, recorder_shutdowns>>
    /\ run_conversation' = "signal"
    /\ UNCHANGED <<shutdown_requested, is_playing, tasks, transcribe_thread, monitor_thread>>

\* shutdown(): audio_chunks_queue.put(None), "shutdown complete"; run_conversation returns
ShutdownComplete ==
    /\ run_conversation = "signal"
    /\ run_conversation' = "returned"
    /\ UNCHANGED <<shutdown_requested, is_playing, tasks, transcription_task, transcribe_thread,
                   shutdown_performed, recorder_shutdowns, monitor_thread>>

\* the silence monitor finds shutdown_performed at the head of its while loop
MonitorExits ==
    /\ monitor_thread = "polling"
    /\ shutdown_performed
    /\ monitor_thread' = "terminated"
    /\ UNCHANGED <<shutdown_requested, is_playing, tasks, run_conversation, transcription_task,
                   transcribe_thread, shutdown_performed, recorder_shutdowns>>

\* recorder.shutdown() makes the pending recorder.text return in its worker thread
TranscribeThreadEnds ==
    /\ transcribe_thread = "blocked"
    /\ shutdown_performed
    /\ transcribe_thread' = "ended"
    /\ UNCHANGED <<shutdown_requested, is_playing, tasks, run_conversation, transcription_task,
                   shutdown_performed, recorder_shutdowns, monitor_thread>>

\* the variables the end of the session leaves alone
ShutFrame == UNCHANGED <<agentVars, voiceButShutdown, faultVars, sttVars, evaVars, ttsVars, chunkVars, turnVars, outVars, procVars>>

ShutNext ==
    \/ Disconnect /\ ShutFrame
    \/ IncomingError /\ ShutFrame
    \/ ExitRequested /\ ShutFrame
    \/ TurnStartsPlayback /\ ShutFrame
    \/ \E t \in TaskNames \ {"incoming_data"} : TaskLoopEnds(t) /\ ShutFrame
    \/ TranscribeLoopReturns /\ ShutFrame
    \/ WaitReturns /\ ShutFrame
    \/ \E t \in TaskNames : CancelTask(t) /\ ShutFrame
    \/ ShutdownStopTts /\ ShutFrame
    \/ ShutdownAudioProcessor /\ ShutFrame
    \/ ShutdownComplete /\ ShutFrame
    \/ MonitorExits /\ ShutFrame
    \/ TranscribeThreadEnds /\ ShutFrame

\* the end of a VoiceAgent session
SpecShutdown == SttStart /\ [][ShutNext]_vars

C2_NoStaleHistory ==
    \A i \in 1..Len(conversation_history) : conversation_history[i].turn \notin interrupted

\* C3: for every recording_start, stop_playing is invoked before the
\* on_recording_start coroutine is scheduled, and so before its message is
\* put into message_queue
C3_StopPlayingFirst ==
    /\ rs_enqueued <= rs_scheduled
    /\ rs_scheduled <= rs_stop_called
    /\ rs_stop_called <= utterances

\* a recording_start stopped the playback of a live turn and its message is queued
C3_Witness == rs_enqueued >= 1 /\ stopped # {} /\ rs_stop_called = rs_scheduled

\* C4: no token of a turn is fed to the TTS adapter or enqueued as
\* assistant_partial after recording_start fired during the turn
C4_StreamCancelled == late_output = {}

\* C5: play_stream_async is not called again for a turn whose playback a
\* recording_start stopped
C5_NoReplay == \A p \in plays : ~p.again

\* C6: the engine is never playing while is_playing is False
C6_BargeInWins == engine_playing => is_playing

\* C7: no assistant_partial or tts_chunk message that was queued when
\* recording_start interrupted its turn is sent to the client
C7_OutputFlushed == \A i \in 1..Len(sent) : ~sent[i].due_flush

\* ------------------------------------------------------------------------
\* Properties of the conversation history (checked under SpecAgent)
\* ------------------------------------------------------------------------
\* a call that ran to its end: an exhausted or failed stream, or an invoke
Completed(e) == e.outcome # "abandoned"

CompletedTurns == SelectSeq(turnLog, Completed)

\* C8: after N > M completed turns (M = max_history_turns > 0) the
\* history holds exactly 2*M entries, the pairs of the M most recent completed turns.
C8_HistoryBounding ==
    LET n == Len(CompletedTurns)
        m == max_history_turns
    IN  (m > 0 /\ n > m) =>
            /\ Len(conversation_history) = 2 * m
            /\ \A i \in 1..m :
                    /\ conversation_history[2 * i - 1].turn = CompletedTurns[n - m + i].turn
                    /\ conversation_history[2 * i].turn = CompletedTurns[n - m + i].turn

\* C9: with max_history_turns > 0 the history has an even length of at most
\* 2 * max_history_turns and alternates human, ai, starting with human.
C9_HistoryShape ==
    max_history_turns > 0 =>
        /\ Len(conversation_history) % 2 = 0
        /\ Len(conversation_history) <= 2 * max_history_turns
        /\ \A i \in 1..Len(conversation_history) :
                conversation_history[i].role = IF i % 2 = 1 THEN "human" ELSE "ai"

\* a full history after a failed and an abandoned stream
C9_Witness ==
    /\ max_history_turns > 0
    /\ Len(conversation_history) = 2 * max_history_turns
    /\ \E i \in 1..Len(turnLog) : turnLog[i].outcome = "abandoned"
    /\ \E i \in 1..Len(turnLog) : turnLog[i].outcome = "failed"
    /\ Len(turnLog) > max_history_turns + 1

\* C10: for every max_history_turns >= 0 the messages handed to the agent
\* are the min(2 * max_history_turns, len(history)) most recent history entries, in
\* order, followed by the new user message.
C10_ContextWindow ==
    LET msgs == agent_input.messages
        before == agent_input.history_before
        n == Len(msgs) - 1
        cap == 2 * max_history_turns
    IN  msgs # <<>> =>
            /\ msgs[n + 1].role = "human"
            /\ n = IF Len(before) < cap THEN Len(before) ELSE cap
            /\ SubSeq(msgs, 1, n) = SubSeq(before, Len(before) - n + 1, Len(before))

LastLogged == turnLog[Len(turnLog)]

\* the last two entries of the history are the pair (user_message, response) of a turn
EndsWithPair(user_message, response, turn) ==
    LET n == Len(conversation_history)
    IN  /\ n >= 2
        /\ conversation_history[n - 1] = HumanMessage(user_message, turn)
        /\ conversation_history[n] = AIMessage(response, turn)

\* C11: after a stream call ran to normal exhaustion, the history ends with
\* the pair of that call: its user message, and an assistant entry whose text is the
\* concatenation of all fragments it yielded, blank or not, whitespace included.
C11_PairPerExhaustedStream ==
    (turnLog # <<>> /\ LastLogged.outcome = "completed") =>
        EndsWithPair(LastLogged.user_message, LastLogged.response_content, LastLogged.turn)

\* C12: after a stream call failed having yielded p1..pk, the history ends
\* with the pair of that call whose assistant text is p1 + ... + pk followed by the
\* error text.
C12_PartialKeptOnError ==
    (turnLog # <<>> /\ LastLogged.outcome = "failed") =>
        EndsWithPair(LastLogged.user_message, LastLogged.response_content \o ErrorMsg,
                     LastLogged.turn)

\* C13: a failure inside a turn, in the agent's stream or in the feeding of
\* the TTS engine, never ends the loop that processes turns: while a final
\* transcript is waiting and no exit was requested, send_text_messages_task, resp.
\* agent_loop, is still running.
C13_TurnFailureContained ==
    /\ text_task # "crashed"
    /\ agent_loop # "crashed"
    /\ (transcription_queue # <<>> /\ ~shutdown_requested) => text_task # "done"
    /\ input_queue # <<>> => agent_loop # "done"

\* turn 1 failed in the stream and in the engine, and turn 2 is being streamed
C13_Witness ==
    /\ \E i \in 1..Len(turnLog) : turnLog[i].turn = 1 /\ turnLog[i].outcome = "failed"
    /\ \E f \in faults : f.turn = 1
    /\ gen.turn = 2
    /\ gen.response_content # <<>>

\* C14: outside stop_playing, is_playing is False whenever the engine has
\* no audio queued or sounding: once a playback has finished on its own,
\* _is_generation_complete() is True.
C14_PlayingFlagTracksEngine ==
    (~engine_playing /\ engine_buffer = <<>> /\ cb.pc # "stop_reset") => ~is_playing

\* C15: on every turn the playback is started: once the turn's stream has
\* yielded a non-blank token and the token has been handled, play_stream_async has
\* been invoked for that turn.
C15_PlaybackStartsEveryTurn ==
    (/\ gen.state = "running"
     /\ Strip(gen.response_content) # <<>>
     /\ IF app = "VoiceAgent" THEN text_task = "stream" ELSE agent_loop = "stream")
        => \E p \in plays : p.turn = gen.turn

\* C16: for every utterance the chain on_final -> _on_full_transcription ->
\* _on_final_transcription fires at most once, the recorder's own final and the
\* silence monitor's synthetic final counted together.
C16_OneFinalPerUtterance ==
    \A u \in 1..MaxUtterances :
        Cardinality({i \in 1..Len(finals) : finals[i].utt = u}) <= 1

IsPartialEvent(e) == e.kind = "partial_transcription"

\* the transcription events in the order they reach the client: those sent, those in
\* message_queue, those scheduled on the loop
EventsToClient == client \o message_queue \o scheduled

\* C17: the partial events that reach the client are the partial texts the
\* recorder produced, utterance by utterance and in the order produced, and no
\* partial event of an utterance comes after a final event of that utterance.
C17_EventOrder ==
    LET partials == SelectSeq(EventsToClient, IsPartialEvent)
    IN  /\ Len(partials) = Len(produced)
        /\ \A i \in 1..Len(partials) :
                partials[i].utt = produced[i].utt /\ partials[i].text = produced[i].text
        /\ \A i, j \in 1..Len(EventsToClient) :
                (/\ i < j
                 /\ EventsToClient[i].kind = "final_transcription"
                 /\ EventsToClient[j].utt = EventsToClient[i].utt)
                    => ~IsPartialEvent(EventsToClient[j])

\* C18: when an utterance has ended, with or without a final transcript, the
\* transcription task is waiting in recorder.text for the next utterance.
C18_KeepsListening == recorder.phase = "idle" => text_call = "blocked"

\* C19: the transcription queue and the message queue are touched by the
\* event-loop thread only.
C19_ThreadConfinement == \A a \in accesses : a.thread = "loop"

\* C20: in VoiceAgent, while _process_user_input awaits the next token of
\* the agent's stream, a message waiting in message_queue can be sent to the
\* websocket, as long as shutdown has not been requested.
C20_DeliveryNotBlocked ==
    (/\ app = "VoiceAgent"
     /\ text_task = "stream"
     /\ message_queue # <<>>
     /\ ~shutdown_requested) => ENABLED SendMessage

\* C21: when run_conversation has returned, each of the four tasks has
\* finished or been cancelled, shutdown_requested is True, is_playing is False, the
\* transcription task is cancelled or finished, the TranscriptionProcessor is shut
\* down, and the background threads (transcribe worker, silence monitor) have
\* terminated.
C21_ShutdownComplete ==
    run_conversation = "returned" =>
        /\ \A t \in TaskNames : tasks[t] \in {"finished", "cancelled"}
        /\ shutdown_requested
        /\ ~is_playing
        /\ transcription_task \in {"finished", "cancelled"}
        /\ shutdown_performed
        /\ recorder_shutdowns = 1
        /\ transcribe_thread = "ended"
        /\ monitor_thread = "terminated"

\* ------------------------------------------------------------------------
\* The end of an EnhancedVoiceAgent session: run_conversation, tts_loop, shutdown
\* ------------------------------------------------------------------------
\* the three coroutines asyncio.gather waits for
LoopsOver ==
    /\ stt_loop \in {"done", "cancelled"}
    /\ agent_loop \in {"done", "cancelled"}
    /\ tts_loop \in {"done", "cancelled"}

\* tts_loop: asyncio.sleep(0.1) returns
TtsLoopWakes ==
    /\ tts_loop = "sleep"
    /\ tts_loop' = "monitor"
    /\ UNCHANGED enhanced_run

\* tts_loop: current_tool_name = None, and `while True` again
TtsLoopMonitors ==
    /\ tts_loop = "monitor"
    /\ tts_loop' = "sleep"
    /\ UNCHANGED enhanced_run

\* the user interrupts the program: run_conversation is cancelled inside gather and
\* gather cancels the coroutines that still run (no loop catches CancelledError)
KeyboardInterrupt ==
    /\ enhanced_run = "gather"
    /\ AgentLoopFree
    /\ tts_loop = "sleep"
    /\ stt_loop' = IF stt_loop = "done" THEN "done" ELSE "cancelled"
    /\ agent_loop' = IF agent_loop = "done" THEN "done" ELSE "cancelled"
    /\ tts_loop' = "cancelled"
    /\ UNCHANGED <<agentVars, app, utterances, recording, cb, transcription_queue, message_queue,
                   sent, scheduled, tts_to_client, shutdown_requested, text_task, input_queue,
                   first_chunk, is_playing, engine_playing, engine_buffer, streams, interrupted,
                   stopped, plays, late_output, yielded, rs_stop_called, rs_scheduled,
                   rs_enqueued, enhanced_run>>

\* asyncio.gather(stt_loop(), agent_loop(), tts_loop()) is over: finally
GatherEnds ==
    /\ enhanced_run = "gather"
    /\ LoopsOver
    /\ enhanced_run' = "shutdown"
    /\ UNCHANGED <<agentVars, voiceVars, tts_loop>>

\* shutdown(): stt_adapter.shutdown(), clear_queues(); run_conversation returns
EnhancedShutdown ==
    /\ enhanced_run = "shutdown"
    /\ input_queue' = <<>>
    /\ enhanced_run' = "returned"
    /\ UNCHANGED <<agentVars, app, utterances, recording, cb, transcription_queue, message_queue,
                   sent, scheduled, tts_to_client, shutdown_requested, text_task, agent_loop,
                   stt_loop, first_chunk, is_playing, engine_playing, engine_buffer, streams,
                   interrupted, stopped, plays, late_output, yielded, rs_stop_called,
                   rs_scheduled, rs_enqueued, tts_loop>>

\* the variables a logged step of a coordinator leaves alone
LogFrame == UNCHANGED <<faultVars, sttVars, shutVars, evaVars, ttsVars, chunkVars, outVars, procVars>>

\* stt_loop handles a transcription; logged with what waited in input_queue when it
\* arrived and with input_queue as stt_loop leaves it
SttLoopHandles(text) ==
    /\ SttLoopText(text)
    /\ put_log' = Append(put_log, [text |-> text, waiting |-> input_queue,
                                    after |-> input_queue'])
    /\ UNCHANGED processed

\* agent_loop takes a text from input_queue; logged with the text its stream is given
AgentLoopTakes ==
    /\ AgentLoopGet
    /\ processed' = Append(processed, gen'.user_message)
    /\ UNCHANGED put_log

EnhancedStart ==
    /\ app = "EnhancedVoiceAgent"
    /\ LangGraphInit({DefaultMaxHistoryTurns})
    /\ VoiceInit
    /\ faults = {}
    /\ SttInit
    /\ ShutInit
    /\ EnhancedInit
    /\ TtsInit
    /\ ChunkInit
    /\ TurnInit
    /\ OutInit
    /\ ProcessorInit

\* the variables the turns of an EnhancedVoiceAgent session leave alone
TurnFrame == UNCHANGED <<faultVars, sttVars, shutVars, evaVars, ttsVars, chunkVars, turnVars, outVars, procVars>>

\* the variables the end of the session leaves alone
EndFrame == UNCHANGED <<faultVars, sttVars, shutVars, ttsVars, chunkVars, turnVars, outVars, procVars>>

\* what the user and the recorder do
EnhancedEnvironment ==
    \/ RecordingStart /\ TurnFrame
    \/ NoSpeech /\ TurnFrame
    \/ \E text \in UserTexts : SttLoopHandles(text) /\ LogFrame
    \/ KeyboardInterrupt /\ EndFrame

\* the steps of agent_loop and of the engine's thread
AgentLoopStep ==
    \/ StopPlayingStop /\ TurnFrame
    \/ StopPlayingReset /\ TurnFrame
    \/ AgentLoopEnds /\ TurnFrame
    \/ AgentLoopTakes /\ LogFrame
    \/ \E content \in YieldedChunks : AgentLoopChunk(content) /\ TurnFrame
    \/ AgentLoopRaise /\ TurnFrame
    \/ AgentLoopPlay /\ TurnFrame
    \/ AgentLoopExhaust /\ TurnFrame
    \/ EngineFinish /\ TurnFrame

\* the steps of tts_loop
TtsLoopStep ==
    \/ TtsLoopWakes /\ UNCHANGED <<agentVars, voiceVars>> /\ EndFrame
    \/ TtsLoopMonitors /\ UNCHANGED <<agentVars, voiceVars>> /\ EndFrame

\* the steps of run_conversation
RunConversationStep ==
    \/ GatherEnds /\ EndFrame
    \/ EnhancedShutdown /\ EndFrame

EnhancedNext ==
    \/ EnhancedEnvironment
    \/ AgentLoopStep
    \/ TtsLoopStep
    \/ RunConversationStep

\* an EnhancedVoiceAgent session whose coroutines are all scheduled again and again;
\* the user and the recorder are free to do nothing
SpecEnhanced ==
    /\ EnhancedStart
    /\ [][EnhancedNext]_vars
    /\ WF_vars(AgentLoopStep)
    /\ WF_vars(TtsLoopStep)
    /\ WF_vars(RunConversationStep)

\* C22: in EnhancedVoiceAgent, once stt_loop has recognised an exit command (and
\* has ended), run_conversation eventually returns after shutdown(), all three loops
\* having terminated.
C22_ExitEndsSession == (stt_loop = "done") ~> (enhanced_run = "returned" /\ LoopsOver)

\* ------------------------------------------------------------------------
\* RealtimeTTSAdapter: feed_text, play_stream_async, stop_playing
\* ------------------------------------------------------------------------
MaxCharacters == 4
MaxFed == 2
MaxStreamInstances == 3

\* the fragments a coordinator feeds: "", a blank and a word
FeedTexts == {<<>>, <<" ">>, <<"h", "i">>}

\* what stream.stop() can do: return, raise an error whose message holds "IDLE",
\* raise any other error
StopOutcomes == {"ok", "idle_error", "other_error"}

\* what stream.feed, stream.play_async and TextToAudioStream(...) can do
EngineOutcomes == {"ok", "raise"}

\* the fields of the adapter
AdapterState ==
    [stream |-> stream, is_playing |-> is_playing, current_mode |-> current_mode,
     total_characters_processed |-> total_characters_processed,
     first_audio_generated |-> first_audio_generated]

\* the record of a call: the state it found, the engine methods it invoked, its result
Call(op, text, engine, returned) ==
    [op |-> op, text |-> text, before |-> AdapterState, engine |-> engine,
     returned |-> returned, raised |-> FALSE]

voiceButPlaying == <<voiceButShutdown, shutdown_requested>>

\* feed_text(text)
FeedText(text, outcome) ==
    /\ Len(stream_fed) < MaxFed
    /\ total_characters_processed + Len(text) <= MaxCharacters
    /\ IF outcome = "ok"
       THEN /\ stream_fed' = Append(stream_fed, text)
            /\ total_characters_processed' = total_characters_processed + Len(text)
            /\ first_audio_generated' = (first_audio_generated \/ Strip(text) # <<>>)
       ELSE UNCHANGED <<stream_fed, total_characters_processed, first_audio_generated>>
    /\ call' = Call("feed_text", text, {[method |-> "feed", outcome |-> outcome]},
                    outcome = "ok")
    /\ UNCHANGED <<is_playing, stream, current_mode, stream_playing, streams_created>>

\* play_stream_async(): no test of is_playing before stream.play_async()
PlayStreamAsync(outcome) ==
    /\ current_mode' = "STREAMING"
    /\ is_playing' = (outcome = "ok")
    /\ stream_playing' = IF outcome = "ok" THEN TRUE ELSE stream_playing
    /\ call' = Call("play_stream_async", <<>>, {[method |-> "play_async", outcome |-> outcome]},
                    outcome = "ok")
    /\ UNCHANGED <<stream, total_characters_processed, first_audio_generated, stream_fed,
                   streams_created>>

\* a stop_playing without its finally clause: "Reset state" is all that clears the flag
StopPlayingFinally_Absent(flag, outcome) == IF outcome = "ok" THEN FALSE ELSE flag

\* stop_playing(): is_playing when the call is over. `finally: self.is_playing = False`
\* runs after the try body and after either except path
StopPlayingFinally(flag, outcome) == FALSE

\* stop_playing() while is_playing: stream.stop(); when it raises an error without
\* "IDLE" in its message, self.stream = self._initialize_stream(), which can raise too
StopPlayingActive(outcome, init) ==
    /\ is_playing
    /\ is_playing' = StopPlayingFinally(is_playing, outcome)
    /\ current_mode' = IF outcome = "ok" THEN "BLOCKING" ELSE current_mode
    /\ IF outcome = "ok"
       THEN /\ stream_playing' = FALSE
            /\ stream_fed' = <<>>
            /\ UNCHANGED <<stream, streams_created>>
       ELSE IF outcome = "other_error" /\ init = "ok"
            THEN /\ streams_created < MaxStreamInstances
                 /\ stream' = streams_created + 1
                 /\ streams_created' = streams_created + 1
                 /\ stream_playing' = FALSE
                 /\ stream_fed' = <<>>
            ELSE UNCHANGED <<stream, streams_created, stream_playing, stream_fed>>
    /\ call' = Call("stop_playing", <<>>,
                    {[method |-> "stop", outcome |-> outcome]}
                        \cup (IF outcome = "other_error"
                              THEN {[method |-> "_initialize_stream", outcome |-> init]}
                              ELSE {}),
                    None)
    /\ UNCHANGED <<total_characters_processed, first_audio_generated>>

\* stop_playing() while not is_playing: stream.stop() is not called
StopPlayingIdle ==
    /\ ~is_playing
    /\ is_playing' = StopPlayingFinally(is_playing, "ok")
    /\ current_mode' = "BLOCKING"
    /\ call' = Call("stop_playing", <<>>, {}, None)
    /\ UNCHANGED <<stream, total_characters_processed, first_audio_generated, stream_playing,
                   stream_fed, streams_created>>

\* the stream has spoken all it was fed: the playback ends in the engine's thread
StreamFinishes ==
    /\ stream_playing
    /\ stream_playing' = FALSE
    /\ stream_fed' = <<>>
    /\ UNCHANGED <<is_playing, stream, current_mode, total_characters_processed,
                   first_audio_generated, streams_created, call>>

\* the variables the adapter leaves alone
TtsFrame == UNCHANGED <<agentVars, voiceButPlaying, faultVars, sttVars, shutVars, evaVars, chunkVars, turnVars, outVars, procVars>>

TtsNext ==
    \/ \E text \in FeedTexts, outcome \in EngineOutcomes : FeedText(text, outcome) /\ TtsFrame
    \/ \E outcome \in EngineOutcomes : PlayStreamAsync(outcome) /\ TtsFrame
    \/ \E outcome \in StopOutcomes, init \in EngineOutcomes :
           StopPlayingActive(outcome, init) /\ TtsFrame
    \/ StopPlayingIdle /\ TtsFrame
    \/ StreamFinishes /\ TtsFrame

\* a RealtimeTTSAdapter called in any order, over an engine that may raise
SpecTts == SttStart /\ [][TtsNext]_vars

\* C23: stop_playing called while is_playing is False does not call the engine's
\* stop, does not raise, and leaves the adapter's state (stream, is_playing,
\* current_mode, counters) as it found it.
C23_IdempotentStop ==
    (call.op = "stop_playing" /\ ~call.before.is_playing) =>
        /\ call.engine = {}
        /\ ~call.raised
        /\ AdapterState = call.before

\* C24: feed_text("") returns True and forwards the empty fragment to the engine
\* stream, whatever the state of the adapter before the call.
C24_EmptyFeedSucceeds ==
    (call.op = "feed_text" /\ call.text = <<>>) =>
        /\ call.returned = TRUE
        /\ [method |-> "feed", outcome |-> "ok"] \in call.engine
        /\ stream_fed # <<>> /\ stream_fed[Len(stream_fed)] = <<>>

\* C25: when the engine's stop raised during stop_playing, the adapter holds a
\* freshly created stream afterwards, stop_playing did not raise and is_playing is
\* False.
C25_StopRecreatesStream ==
    (call.op = "stop_playing" /\ \E c \in call.engine : c.method = "stop" /\ c.outcome # "ok") =>
        /\ stream # call.before.stream
        /\ ~call.raised
        /\ ~is_playing

\* C26: play_stream_async called while is_playing is True does not invoke the
\* engine's play_async and leaves the adapter's state as it found it.
C26_IdempotentStart ==
    (call.op = "play_stream_async" /\ call.before.is_playing) =>
        /\ call.engine = {}
        /\ AdapterState = call.before

\* ------------------------------------------------------------------------
\* VoiceAgent: the inbound frames and the audio chunks
\* ------------------------------------------------------------------------
MaxFrames == 3

\* np.int16: the bytes of one sample
SampleWidth == 2

\* the lengths in bytes of the binary frames a client sends
ChunkLengths == {0, 2, 3, 4}

\* what recorder.feed_audio can do
RecorderOutcomes == {"ok", "raise"}

\* the control messages of a client; "malformed" is not JSON
ControlTypes == {"tts_start", "tts_stop", "interrupt", "other", "not_object", "malformed"}

shutButTasks == <<run_conversation, transcription_task, transcribe_thread, shutdown_performed,
                  recorder_shutdowns, monitor_thread>>

\* np.frombuffer(audio_chunk, dtype=np.int16) raises ValueError unless the buffer is
\* a whole number of samples
FromBufferRaises(length) == length % SampleWidth # 0

\* feed_audio_chunk(pcm): the call record; nothing in it catches an exception.
\* TranscriptionProcessor.feed_audio swallows the exception of recorder.feed_audio
FeedAudioChunk(chunk, outcome) ==
    [chunk |-> chunk.id, length |-> chunk.pcm,
     raised |-> FromBufferRaises(chunk.pcm),
     fed |-> ~FromBufferRaises(chunk.pcm) /\ ~shutdown_performed /\ outcome = "ok"]

\* process_incoming_data_task: a binary frame is put into audio_chunks_queue
ReceiveAudio(length) ==
    /\ tasks["incoming_data"] = "running"
    /\ ~shutdown_requested
    /\ frames < MaxFrames
    /\ frames' = frames + 1
    /\ audio_chunks_queue' = Append(audio_chunks_queue, [id |-> frames + 1, pcm |-> length])
    /\ UNCHANGED <<shutdown_requested, is_playing, tts_to_client, shutVars, fed_chunks,
                   chunk_task, feed_call, receive_errors>>

\* a handler that takes an interrupt for a tts_stop
HandleControlMessage_InterruptAsStop(type, flag, queue) ==
    [tts_to_client |-> IF type = "tts_start" THEN TRUE
                       ELSE IF type \in {"tts_stop", "interrupt"} THEN FALSE
                       ELSE flag,
     message_queue |-> queue]

\* _handle_control_message(message_text): tts_to_client and message_queue as it
\* leaves them. json.loads raises for a text that is not JSON and control_msg.get
\* for a JSON value that is not an object, both inside the handler's own try;
\* interrupt awaits callbacks.on_recording_start()
HandleControlMessage(type, flag, queue) ==
    [tts_to_client |-> IF type = "tts_start" THEN TRUE
                       ELSE IF type \in {"tts_stop", "interrupt"} THEN FALSE
                       ELSE flag,
     message_queue |-> IF type = "interrupt"
                       THEN Append(queue, Message("recording_start", <<>>, 0))
                       ELSE queue]

\* process_incoming_data_task: a text frame is handed to _handle_control_message
ReceiveControl(type) ==
    /\ tasks["incoming_data"] = "running"
    /\ ~shutdown_requested
    /\ frames < MaxFrames
    /\ frames' = frames + 1
    /\ tts_to_client' = HandleControlMessage(type, tts_to_client, message_queue).tts_to_client
    /\ message_queue' = HandleControlMessage(type, tts_to_client, message_queue).message_queue
    /\ UNCHANGED <<shutdown_requested, is_playing, shutVars, audio_chunks_queue, fed_chunks,
                   chunk_task, feed_call, receive_errors>>

\* process_incoming_data_task: websocket.receive() raises; except Exception: break
ReceiveRaises ==
    /\ ~shutdown_requested
    /\ IncomingError
    /\ receive_errors' = receive_errors + 1
    /\ UNCHANGED <<tts_to_client, audio_chunks_queue, fed_chunks, chunk_task, frames, feed_call>>

\* the next test of `while not self.shutdown_requested` of process_audio_chunks_task
ChunkTaskLoops(pc) ==
    IF shutdown_requested
    THEN tasks' = [tasks EXCEPT !["audio_chunks"] = "finished"] /\ UNCHANGED chunk_task
    ELSE chunk_task' = pc /\ UNCHANGED tasks

\* process_audio_chunks_task: audio_chunks_queue.get() returns a chunk, feed_audio_chunk
ChunkTaskGet(outcome) ==
    /\ tasks["audio_chunks"] = "running"
    /\ chunk_task = "get"
    /\ audio_chunks_queue # <<>>
    /\ audio_chunks_queue' = Tail(audio_chunks_queue)
    /\ LET chunk == Head(audio_chunks_queue)
           result == FeedAudioChunk(chunk, outcome)
       IN  IF chunk.pcm = 0
           THEN /\ UNCHANGED <<feed_call, fed_chunks>>
                /\ ChunkTaskLoops("get")
           ELSE /\ feed_call' = result
                /\ fed_chunks' = IF result.fed THEN Append(fed_chunks, chunk.id) ELSE fed_chunks
                /\ IF result.raised
                   THEN chunk_task' = "sleep" /\ UNCHANGED tasks
                   ELSE ChunkTaskLoops("get")
    /\ UNCHANGED <<shutdown_requested, is_playing, tts_to_client, shutButTasks, frames,
                   receive_errors>>

\* process_audio_chunks_task: asyncio.sleep(0.1) after an exception is over
ChunkTaskWakes ==
    /\ tasks["audio_chunks"] = "running"
    /\ chunk_task = "sleep"
    /\ ChunkTaskLoops("get")
    /\ UNCHANGED <<shutdown_requested, is_playing, tts_to_client, shutButTasks,
                   audio_chunks_queue, fed_chunks, frames, feed_call, receive_errors>>

\* the variables the inbound frames leave alone
voiceButMessages == <<app, utterances, recording, cb, transcription_queue, sent,
                      scheduled, text_task, input_queue, agent_loop, stt_loop, first_chunk,
                      engine_playing, engine_buffer, streams, interrupted, stopped, plays,
                      late_output, yielded, rs_stop_called, rs_scheduled, rs_enqueued>>

ControlFrame == UNCHANGED <<agentVars, voiceButMessages, faultVars, sttVars, evaVars, ttsVars, turnVars, outVars, procVars>>

\* the variables the audio path leaves alone
voiceButControl == <<app, utterances, recording, cb, transcription_queue, message_queue, sent,
                     scheduled, text_task, input_queue, agent_loop, stt_loop, first_chunk,
                     engine_playing, engine_buffer, streams, interrupted, stopped, plays,
                     late_output, yielded, rs_stop_called, rs_scheduled, rs_enqueued>>

ChunkFrame == UNCHANGED <<agentVars, voiceButControl, faultVars, sttVars, evaVars, ttsVars, turnVars, outVars, procVars>>

ChunkNext ==
    \/ \E length \in ChunkLengths : ReceiveAudio(length) /\ ChunkFrame
    \/ \E type \in ControlTypes : ReceiveControl(type) /\ ControlFrame
    \/ ReceiveRaises /\ ChunkFrame
    \/ Disconnect /\ ShutFrame
    \/ \E outcome \in RecorderOutcomes : ChunkTaskGet(outcome) /\ ChunkFrame
    \/ ChunkTaskWakes /\ ChunkFrame
    \/ WaitReturns /\ ShutFrame
    \/ \E t \in TaskNames : CancelTask(t) /\ ShutFrame

\* the audio path of a VoiceAgent session until its tasks are over
SpecChunks == SttStart /\ [][ChunkNext]_vars

\* C27: feed_audio_chunk, given a chunk whose length is not a whole number of
\* 16-bit samples, feeds nothing to the transcription processor and returns without
\* raising.
C27_MalformedChunkDropped ==
    (feed_call.chunk # 0 /\ feed_call.length % SampleWidth # 0) =>
        ~feed_call.fed /\ ~feed_call.raised

\* the chunks reach the recorder in the order of their arrival, and while the session
\* is not being ended a chunk that failed leaves process_audio_chunks_task running
ChunkFailureContained ==
    /\ \A i, j \in 1..Len(fed_chunks) : i < j => fed_chunks[i] < fed_chunks[j]
    /\ (feed_call.chunk # 0 /\ ~feed_call.fed /\ ~shutdown_requested
            /\ run_conversation = "wait") =>
           tasks["audio_chunks"] = "running"

\* an exception of websocket.receive leaves process_incoming_data_task running and
\* run_conversation waiting
ReceiveFailureContained ==
    receive_errors > 0 => tasks["incoming_data"] = "running" /\ run_conversation = "wait"

\* C28: a chunk whose feeding failed leaves process_audio_chunks_task running and
\* the later chunks are fed in arrival order; an exception while receiving an inbound
\* frame does not end process_incoming_data_task nor the session.
C28_FailureDoesNotEndSession == ChunkFailureContained /\ ReceiveFailureContained

\* ------------------------------------------------------------------------
\* VoiceAgent: from transcription_queue to _process_user_input
\* ------------------------------------------------------------------------
\* _on_final_transcription, with the text logged as put
FinalArrives(text) ==
    /\ FinalTranscription(text)
    /\ put_log' = Append(put_log, [text |-> text, live |-> streams # {}])
    /\ UNCHANGED processed

\* send_text_messages_task: get_nowait() returns a text and _process_user_input is
\* called with it and starts the agent's stream
TurnTaken ==
    /\ StartTurn
    /\ processed' = Append(processed, gen'.user_message)
    /\ UNCHANGED put_log

\* the same for an exit command
ExitTaken ==
    /\ ExitCommand
    /\ processed' = Append(processed, Head(transcription_queue))
    /\ UNCHANGED put_log

\* the recorder, the user and the engine's thread
TurnEnvironment ==
    \/ RecordingStart /\ VoiceFrame
    \/ \E text \in UserTexts : FinalArrives(text) /\ LogFrame
    \/ NoSpeech /\ VoiceFrame
    \/ EngineFinish /\ VoiceFrame

\* the steps of a recorder callback on the recorder's thread
CallbackStep ==
    \/ StopPlayingStop /\ VoiceFrame
    \/ StopPlayingReset /\ VoiceFrame
    \/ ScheduleRecordingStart /\ VoiceFrame

\* the steps of send_text_messages_task
TextTaskStep ==
    \/ TextTaskEnds /\ VoiceFrame
    \/ NoTranscription /\ VoiceFrame
    \/ TurnTaken /\ LogFrame
    \/ ExitTaken /\ LogFrame
    \/ \E content \in YieldedChunks : TurnChunk(content) /\ VoiceFrame
    \/ TurnRaise /\ VoiceFrame
    \/ TurnPlay /\ VoiceFrame
    \/ TurnExhaust /\ VoiceFrame
    \/ SendMessage /\ VoiceFrame
    \/ SendTimeout /\ VoiceFrame

\* send_tts_chunks_task; the coroutines the recorder callbacks schedule only write
\* message_queue and tts_to_client and stay pending here
LoopStep == TtsChunksComplete /\ VoiceFrame

TurnsNext ==
    \/ TurnEnvironment
    \/ CallbackStep
    \/ TextTaskStep
    \/ LoopStep

\* a VoiceAgent session in which the event loop schedules its coroutines again and
\* again and every agent stream is finite; the user is free to stay silent
SpecTurns ==
    /\ SttStart
    /\ [][TurnsNext]_vars
    /\ WF_vars(CallbackStep)
    /\ WF_vars(TextTaskStep)
    /\ WF_vars(LoopStep)

Texts(log) == [i \in 1..Len(log) |-> log[i].text]

IsPrefix(s, t) == Len(s) <= Len(t) /\ s = SubSeq(t, 1, Len(s))

\* C29: each text put into transcription_queue is passed to _process_user_input
\* exactly once and in the order of the puts, and, unless a shutdown was requested,
\* eventually; this includes a text put while a turn was live.
C29_EveryFinalBecomesATurn ==
    /\ [](IsPrefix(processed, Texts(put_log)))
    /\ \A n \in 1..MaxUtterances :
           (Len(put_log) >= n) ~> (Len(processed) >= n \/ shutdown_requested)

\* two turns were taken, the second for a text put while the first stream was live and
\* interrupted by its utterance
C29_Witness ==
    /\ Len(processed) = 2
    /\ put_log[2].live
    /\ 1 \in interrupted
    /\ ~shutdown_requested
    /\ calls = 2

\* the transcript of put_log[i] still waited in input_queue when the next one arrived
Discarded(i) == i < Len(put_log) /\ put_log[i + 1].waiting # <<>>

\* the transcripts that were not discarded, in the order of their arrival
KeptTexts ==
    LET kept[i \in 0..Len(put_log)] ==
            IF i = 0 THEN <<>>
            ELSE IF Discarded(i) THEN kept[i - 1]
            ELSE Append(kept[i - 1], put_log[i].text)
    IN  kept[Len(put_log)]

\* C30: in EnhancedVoiceAgent, stt_loop leaves input_queue holding exactly the
\* transcript it has just handled, followed by None when it is an exit command; a
\* transcript that still waited in input_queue when a newer one arrived is never given
\* to agent_loop, and the others are given in the order of their arrival.
C30_LatestUtteranceWins ==
    /\ \A i \in 1..Len(put_log) :
           put_log[i].after = IF IsExit(put_log[i].text)
                              THEN <<put_log[i].text, None>>
                              ELSE <<put_log[i].text>>
    /\ IsPrefix(processed, KeptTexts)

\* a second transcript arrived while the first still waited, and agent_loop has taken
\* the second one only
C30_Witness ==
    /\ Len(put_log) = 2
    /\ put_log[2].waiting = <<put_log[1].text>>
    /\ processed = <<put_log[2].text>>
    /\ agent_loop = "stream"

\* ------------------------------------------------------------------------
\* VoiceAgent: the assistant_complete messages
\* ------------------------------------------------------------------------
IsAssistantComplete(m) == m.type = "assistant_complete"

\* the turns whose _process_user_input has been entered and left
TurnsProcessed == calls - Cardinality(streams)

\* C31: exactly one assistant_complete is enqueued per processed turn, after all
\* assistant_partial messages of that turn, and none is enqueued without a turn:
\* the assistant_complete messages waiting in message_queue are never more than the
\* turns processed, and none of them is followed by an assistant_partial of its turn
\* or of the turn whose stream was being consumed when it was enqueued.
C31_CompleteOncePerTurn ==
    /\ Len(SelectSeq(message_queue, IsAssistantComplete)) <= TurnsProcessed
    /\ \A i, j \in 1..Len(message_queue) :
           (i < j /\ IsAssistantComplete(message_queue[i])
                  /\ message_queue[j].type = "assistant_partial")
               => /\ message_queue[i].turn # 0
                  /\ message_queue[i].turn < message_queue[j].turn

\* ------------------------------------------------------------------------
\* VoiceAgent: from message_queue to the websocket
\* ------------------------------------------------------------------------
\* a message as send_json serialises it
Wire(m) == [type |-> m.type, content |-> m.content, turn |-> m.turn]

WireSeq(queue) == [i \in 1..Len(queue) |-> Wire(queue[i])]

\* a step of the session, logged with the message it puts into message_queue and
\* the message send_json sends
Traced(A) ==
    /\ A
    /\ enqueued' = IF Len(message_queue') > Len(message_queue)
                   THEN Append(enqueued, Wire(message_queue'[Len(message_queue')]))
                   ELSE enqueued
    /\ delivered' = IF Len(message_queue') < Len(message_queue)
                    THEN Append(delivered, Wire(sent'[1]))
                    ELSE delivered

\* the variables a traced step leaves alone
OutFrame == UNCHANGED <<faultVars, sttVars, shutVars, evaVars, ttsVars, chunkVars, turnVars, procVars>>

\* the user speaks again once the turn of the utterance before has been streamed
SpeaksAfterAnswer ==
    /\ streams = {}
    /\ transcription_queue = <<>>
    /\ RecordingStart

\* the recorder and a user who lets the agent finish
OutEnvironment ==
    \/ SpeaksAfterAnswer /\ VoiceFrame
    \/ \E text \in UserTexts : FinalTranscription(text) /\ VoiceFrame
    \/ NoSpeech /\ VoiceFrame

\* the coroutines of the event loop that put messages into message_queue
ProducerStep ==
    \/ Traced(RunScheduled) /\ OutFrame
    \/ Traced(TtsChunksComplete) /\ OutFrame

\* the steps of send_text_messages_task
SenderStep ==
    \/ TextTaskEnds /\ VoiceFrame
    \/ NoTranscription /\ VoiceFrame
    \/ ExitCommand /\ VoiceFrame
    \/ StartTurn /\ VoiceFrame
    \/ \E content \in YieldedChunks : Traced(TurnChunk(content)) /\ OutFrame
    \/ Traced(TurnRaise) /\ OutFrame
    \/ Traced(TurnPlay) /\ OutFrame
    \/ Traced(TurnExhaust) /\ OutFrame
    \/ Traced(SendMessage) /\ OutFrame
    \/ SendTimeout /\ VoiceFrame

OutNext ==
    \/ OutEnvironment
    \/ CallbackStep
    \/ ProducerStep
    \/ SenderStep

\* a VoiceAgent session in which the event loop schedules its coroutines again and
\* again and every agent stream is finite
SpecOutgoing ==
    /\ SttStart
    /\ [][OutNext]_vars
    /\ WF_vars(CallbackStep)
    /\ WF_vars(ProducerStep)
    /\ WF_vars(SenderStep)

DisconnectEnvironment ==
    \/ Disconnect /\ ShutFrame
    \/ TurnStartsPlayback /\ ShutFrame
    \/ \E t \in TaskNames \ {"incoming_data"} : TaskLoopEnds(t) /\ ShutFrame
    \/ TranscribeLoopReturns /\ ShutFrame
    \/ MonitorExits /\ ShutFrame
    \/ TranscribeThreadEnds /\ ShutFrame

\* the steps of run_conversation from asyncio.wait on
RunConversationEnds ==
    \/ WaitReturns /\ ShutFrame
    \/ \E t \in TaskNames : CancelTask(t) /\ ShutFrame
    \/ ShutdownStopTts /\ ShutFrame
    \/ ShutdownAudioProcessor /\ ShutFrame
    \/ ShutdownComplete /\ ShutFrame

DisconnectNext ==
    \/ DisconnectEnvironment
    \/ RunConversationEnds

\* a session with no exit command and no receive error, whose run_conversation is
\* scheduled again and again by the event loop
SpecDisconnect ==
    /\ SttStart
    /\ [][DisconnectNext]_vars
    /\ WF_vars(RunConversationEnds)

\* process_incoming_data_task has handled websocket.disconnect
Disconnected == tasks["incoming_data"] = "finished"

RemainingTasks == TaskNames \ {"incoming_data"}

\* C33 as stated: after a disconnect the three remaining tasks are cancelled
C33_RemainingTasksCancelled ==
    (Disconnected /\ run_conversation = "returned")
        => \A t \in RemainingTasks : tasks[t] = "cancelled"

\* C33: when the websocket delivers a disconnect, process_incoming_data_task sets
\* shutdown_requested and finishes, each of the three remaining tasks is cancelled
\* unless it has returned by itself on reading shutdown_requested, run_conversation
\* eventually runs shutdown() and returns, and no task runs after it has returned.
C33_DisconnectEndsSession ==
    /\ [](Disconnected => shutdown_requested)
    /\ Disconnected ~> (run_conversation = "returned")
    /\ [](run_conversation = "returned"
             => /\ Disconnected
                /\ shutdown_performed
                /\ transcription_task \in {"finished", "cancelled"}
                /\ \A t \in RemainingTasks : tasks[t] \in {"finished", "cancelled"})
    /\ [][\A t \in RemainingTasks :
              /\ tasks'[t] = "finished" /\ tasks[t] # "finished" => shutdown_requested
              /\ tasks'[t] = "cancelled" /\ tasks[t] # "cancelled" => Disconnected]_vars

\* run_conversation has returned after a disconnect, two tasks cancelled and
\* send_tts_chunks_task returned by itself
C33_Witness ==
    /\ run_conversation = "returned"
    /\ Disconnected
    /\ tasks["audio_chunks"] = "cancelled"
    /\ tasks["text_messages"] = "cancelled"
    /\ tasks["tts_chunks"] = "finished"

\* ------------------------------------------------------------------------
\* A VoiceAgent session that the user ends with an exit command
\* ------------------------------------------------------------------------
\* what the user says
SpokenTexts == {<<"h", "i">>, <<" ", "E", "x", "i", "t", " ">>, <<"s", "t", "o", "p">>}

\* the Task of send_text_messages_task is done once the coroutine has returned
TextTaskReturns ==
    /\ text_task = "done"
    /\ tasks["text_messages"] = "running"
    /\ tasks' = [tasks EXCEPT !["text_messages"] = "finished"]
    /\ UNCHANGED <<shutdown_requested, is_playing, shutButTasks>>

\* run_conversation has not cancelled send_text_messages_task
TextTaskAlive == tasks["text_messages"] = "running"

\* the recorder and the user
ExitEnvironment ==
    \/ RecordingStart /\ VoiceFrame
    \/ \E text \in SpokenTexts : FinalArrives(text) /\ LogFrame
    \/ NoSpeech /\ VoiceFrame

\* the steps of send_text_messages_task until it is cancelled or returns
TextTaskRuns ==
    \/ TextTaskAlive /\ TextTaskEnds /\ VoiceFrame
    \/ TextTaskAlive /\ NoTranscription /\ VoiceFrame
    \/ TextTaskAlive /\ TurnTaken /\ LogFrame
    \/ TextTaskAlive /\ ExitTaken /\ LogFrame
    \/ \E content \in YieldedChunks : TextTaskAlive /\ TurnChunk(content) /\ VoiceFrame
    \/ TextTaskAlive /\ TurnRaise /\ VoiceFrame
    \/ TextTaskAlive /\ TurnPlay /\ VoiceFrame
    \/ TextTaskAlive /\ TurnExhaust /\ VoiceFrame
    \/ TextTaskAlive /\ SendMessage /\ VoiceFrame
    \/ TextTaskAlive /\ SendTimeout /\ VoiceFrame
    \/ TextTaskReturns /\ ShutFrame

\* the two other tasks that poll shutdown_requested
PollingTaskEnds ==
    \E t \in {"audio_chunks", "tts_chunks"} : TaskLoopEnds(t) /\ ShutFrame

ExitNext ==
    \/ ExitEnvironment
    \/ CallbackStep
    \/ TextTaskRuns
    \/ PollingTaskEnds
    \/ RunConversationEnds

\* a session whose client stays connected; the event loop schedules
\* send_text_messages_task and run_conversation again and again
SpecExit ==
    /\ SttStart
    /\ [][ExitNext]_vars
    /\ WF_vars(TextTaskRuns)
    /\ WF_vars(RunConversationEnds)

\* the spoken texts that are exit commands once trimmed and lowered
ExitSpoken == {<<" ", "E", "x", "i", "t", " ">>, <<"s", "t", "o", "p">>}

\* send_text_messages_task takes an exit command from transcription_queue
TakesExitCommand ==
    /\ transcription_queue # <<>>
    /\ Head(transcription_queue) \in ExitSpoken
    /\ transcription_queue' = Tail(transcription_queue)

\* C34: when the text taken from transcription_queue is an exit command (after
\* trimming, in any case), _process_user_input sets shutdown_requested, starts no
\* agent stream, feeds nothing to TTS and leaves the conversation history
\* unchanged, and the session then terminates.
C34_ExitCommand ==
    /\ [][TakesExitCommand =>
              /\ shutdown_requested'
              /\ UNCHANGED <<agentVars, streams, engine_buffer, engine_playing, is_playing,
                             plays, message_queue, tts_to_client>>]_vars
    /\ (\E i \in 1..Len(processed) : processed[i] \in ExitSpoken)
           ~> (run_conversation = "returned")

\* the session has ended on " Exit " said after a turn that was answered
C34_Witness ==
    /\ run_conversation = "returned"
    /\ Len(processed) = 2
    /\ processed[2] = <<" ", "E", "x", "i", "t", " ">>
    /\ calls = 1
    /\ Len(conversation_history) = 2
    /\ tasks["text_messages"] = "finished"

\* ------------------------------------------------------------------------
\* Properties of the silence monitor (checked under SpecStt)
\* ------------------------------------------------------------------------
IsSynthetic(f) == f.thread = "monitor"

\* the silence monitor calls on_final_callback with a text
MonitorPromotes ==
    /\ Len(finals') = Len(finals) + 1
    /\ IsSynthetic(finals'[Len(finals')])

\* C35: the silence monitor promotes the partial to a synthetic final only when the
\* silence has lasted longer than 70% of the post-speech silence window and the
\* stripped partial is longer than 3 characters, at most once per silence period;
\* the hot latch is cleared only when silence_time is back to 0.
C35_OncePerSilence ==
    /\ [][MonitorPromotes =>
              /\ silence_time
              /\ recorder.elapsed >= EarlyTrigger
              /\ Len(Strip(realtime_text)) > MinSpeechLen]_vars
    /\ [](\A i, j \in 1..Len(finals) :
              (i < j /\ IsSynthetic(finals[i]) /\ IsSynthetic(finals[j]))
                  => finals[i].silence # finals[j].silence)
    /\ [][(hot /\ ~hot') => ~silence_time]_vars

\* two synthetic finals in one utterance, one in each of its two silence periods
C35_Witness ==
    \E i, j \in 1..Len(finals) :
        /\ i < j
        /\ IsSynthetic(finals[i]) /\ IsSynthetic(finals[j])
        /\ finals[i].utt = finals[j].utt
        /\ finals[i].silence = 1 /\ finals[j].silence = 2


\* the partial texts the recorder has produced for utterance u, oldest first
PartialsOf(u) ==
    LET OfUtterance(p) == p.utt = u
    IN  SelectSeq(produced, OfUtterance)

\* C36: whenever the silence monitor promotes a partial to a synthetic final, an
\* utterance is in progress and the promoted text is the latest partial of that
\* utterance; a partial of an earlier utterance is never promoted.
C36_SyntheticFinalIsCurrent ==
    [][MonitorPromotes =>
           /\ recorder.phase # "idle"
           /\ PartialsOf(recorder.utt) # <<>>
           /\ finals'[Len(finals')].text
                  = PartialsOf(recorder.utt)[Len(PartialsOf(recorder.utt))].text]_vars

\* ------------------------------------------------------------------------
\* Properties of LangGraphAgent.invoke (checked under SpecAgent)
\* ------------------------------------------------------------------------
IsSuffix(s, t) == Len(s) <= Len(t) /\ s = SubSeq(t, Len(t) - Len(s) + 1, Len(t))

\* a call of invoke has returned
InvokeReturns ==
    /\ Len(turnLog') = Len(turnLog) + 1
    /\ turnLog'[Len(turnLog')].outcome = "invoked"

\* C37: every call of invoke, whether the agent call succeeds or raises, appends
\* exactly one (user, assistant) pair to conversation_history, the assistant text
\* being the text it returns (the response, or 'Error: ...' on failure).
C37_InvokeRecordsTurn ==
    [][InvokeReturns =>
           LET e == turnLog'[Len(turnLog')]
               pair == <<HumanMessage(e.user_message, e.turn),
                         AIMessage(e.response_content, e.turn)>>
           IN  /\ e.response_content # <<>>
               /\ IsSuffix(pair, conversation_history')
               /\ IsSuffix(conversation_history', conversation_history \o pair)
               /\ \A i \in 1..Len(conversation_history') - 2 :
                      conversation_history'[i].turn # e.turn]_vars

\* the third call of invoke has failed on a full history: the oldest pair was
\* dropped and the error text recorded
C37_Witness ==
    /\ calls = 3
    /\ turnLog # <<>>
    /\ LastLogged.outcome = "invoked"
    /\ LastLogged.response_content = ErrorMsg
    /\ LastLogged.turn = 3
    /\ max_history_turns = 1
    /\ Len(conversation_history) = 2
    /\ conversation_history[2] = AIMessage(ErrorMsg, 3)

\* ------------------------------------------------------------------------
\* Properties of the control messages (checked under SpecChunks)
\* ------------------------------------------------------------------------
\* C38: handling an inbound text frame changes state only as follows: tts_start sets
\* tts_to_client, tts_stop clears it, interrupt clears it and enqueues one
\* recording_start message; a frame that is not valid JSON or has any other type
\* leaves tts_to_client and all queues unchanged; in no case does the frame end
\* process_incoming_data_task.
C38_ControlMessages ==
    [][\A type \in ControlTypes :
           ReceiveControl(type) =>
               /\ tts_to_client' = CASE type = "tts_start" -> TRUE
                                     [] type \in {"tts_stop", "interrupt"} -> FALSE
                                     [] OTHER -> tts_to_client
               /\ message_queue' =
                      IF type = "interrupt"
                      THEN message_queue \o <<Message("recording_start", <<>>, 0)>>
                      ELSE message_queue
               /\ UNCHANGED <<audio_chunks_queue, transcription_queue, input_queue,
                              shutdown_requested, is_playing>>
               /\ tasks'["incoming_data"] = "running"]_vars

\* three frames were handled: an interrupt, which enqueued recording_start, then
\* two more of which the last left tts_to_client set; the task is still receiving
C38_Witness ==
    /\ frames = 3
    /\ Len(message_queue) = 1
    /\ message_queue[1].type = "recording_start"
    /\ tts_to_client
    /\ audio_chunks_queue = <<>>
    /\ tasks["incoming_data"] = "running"
    /\ run_conversation = "wait"

\* ------------------------------------------------------------------------
\* The postcondition of stop_playing (checked under SpecTts)
\* ------------------------------------------------------------------------
\* the ways through stop_playing the last call took
StopPath ==
    IF call.engine = {} THEN "not_playing"
    ELSE IF [method |-> "stop", outcome |-> "ok"] \in call.engine THEN "stopped"
    ELSE IF [method |-> "stop", outcome |-> "idle_error"] \in call.engine THEN "idle_error"
    ELSE IF [method |-> "_initialize_stream", outcome |-> "ok"] \in call.engine THEN "recreated"
    ELSE "recreation_failed"

\* C39: after every call of stop_playing, on every path (not playing, stop
\* succeeded, stop raised with or without IDLE in the message, stream recreation
\* failed), is_playing is False and no exception has escaped to the caller.
C39_StopPlayingPostcondition ==
    call.op = "stop_playing" =>
        /\ is_playing = FALSE
        /\ call.raised = FALSE
        /\ call.returned = None

\* stop_playing was called during a playback, stream.stop() raised an error without
\* IDLE in it and the stream could not be created again
C39_Witness ==
    /\ call.op = "stop_playing"
    /\ call.before.is_playing
    /\ StopPath = "recreation_failed"
    /\ stream = call.before.stream
    /\ current_mode = "STREAMING"
    /\ ~is_playing

\* ------------------------------------------------------------------------
\* TranscriptionProcessor.shutdown, feed_audio and the silence monitor thread
\* ------------------------------------------------------------------------
MaxShutdownCalls == 2

shutButMonitor == <<tasks, run_conversation, transcription_task, transcribe_thread,
                    shutdown_performed, recorder_shutdowns>>

shutButProcessor == <<tasks, run_conversation, transcription_task, transcribe_thread,
                      monitor_thread>>

\* what a call of the event loop's thread on the processor leaves alone
ProcessorFrame ==
    UNCHANGED <<agentVars, voiceVars, faultVars, sttVars, shutButProcessor, evaVars, ttsVars,
                chunkVars, turnVars, outVars>>

\* what a pass of the monitor thread leaves alone besides the recognition state
PassFrame ==
    UNCHANGED <<shutButMonitor, evaVars, ttsVars, chunkVars, turnVars, outVars, procVars>>

\* shutdown(): `if not self.shutdown_performed:` sets the flag; with a recorder it
\* goes on to recorder.shutdown(), otherwise the call is over
ProcessorShutdown ==
    /\ processor_shutdown = "idle"
    /\ shutdown_calls < MaxShutdownCalls
    /\ shutdown_calls' = shutdown_calls + 1
    /\ shutdown_performed' = TRUE
    /\ processor_shutdown' = IF ~shutdown_performed /\ recorder_present THEN "recorder"
                             ELSE "idle"
    /\ UNCHANGED <<recorder_shutdowns, recorder_present, fed_log>>

\* shutdown(): self.recorder.shutdown() returns or raises; `finally: self.recorder = None`
RecorderShutdown(outcome) ==
    /\ processor_shutdown = "recorder"
    /\ recorder_shutdowns' = recorder_shutdowns + 1
    /\ recorder_present' = FALSE
    /\ processor_shutdown' = "idle"
    /\ UNCHANGED <<shutdown_performed, shutdown_calls, fed_log>>

\* feed_audio(chunk), called by the chunk task between two calls of shutdown: the
\* chunk goes to recorder.feed_audio `if self.recorder and not self.shutdown_performed`
FeedAudio ==
    /\ processor_shutdown = "idle"
    /\ fed_log' = fed_log \cup {[after |-> shutdown_calls > 0,
                                 reached |-> recorder_present /\ ~shutdown_performed]}
    /\ fed_log' # fed_log
    /\ UNCHANGED <<shutdown_performed, recorder_shutdowns, recorder_present, processor_shutdown,
                   shutdown_calls>>

\* monitor(): `while not self.shutdown_performed:` and `if not self.recorder:` let
\* the thread into the body of a pass
MonitorEnters ==
    /\ monitor_thread = "polling"
    /\ ~shutdown_performed
    /\ recorder_present
    /\ monitor_thread' = "pass"

\* monitor(): the rest of the pass, down to time.sleep(0.01)
MonitorLeaves ==
    /\ monitor_thread = "pass"
    /\ monitor_thread' = "polling"

\* a pass that neither promotes nor drops the latch
MonitorIdle ==
    /\ ~ENABLED MonitorTrigger
    /\ ~ENABLED MonitorCool
    /\ UNCHANGED <<agentVars, voiceVars, faultVars, sttVars>>

ProcessorNext ==
    \/ recorder_present /\ StartRecording /\ SttFrame
    \/ \E text \in PartialTexts : recorder_present /\ OnPartial(text) /\ SttFrame
    \/ recorder_present /\ VadDetectStart /\ SttFrame
    \/ recorder_present /\ VadDetectStop /\ SttFrame
    \/ SilencePasses /\ SttFrame
    \/ \E text \in FinalTexts : recorder_present /\ RecorderText(text) /\ SttFrame
    \/ recorder_present /\ UtteranceEnds /\ SttFrame
    \/ ProcessorShutdown /\ ProcessorFrame
    \/ \E outcome \in EngineOutcomes : RecorderShutdown(outcome) /\ ProcessorFrame
    \/ FeedAudio /\ ProcessorFrame
    \/ MonitorEnters /\ UNCHANGED <<agentVars, voiceVars, faultVars, sttVars>> /\ PassFrame
    \/ MonitorLeaves /\ MonitorTrigger /\ PassFrame
    \/ MonitorLeaves /\ MonitorCool /\ PassFrame
    \/ MonitorLeaves /\ MonitorIdle /\ PassFrame
    \/ MonitorExits /\ ShutFrame

\* one TranscriptionProcessor with its recorder, the chunk task and the loop's
\* shutdown on one thread, the silence monitor on another
SpecProcessor == SttStart /\ [][ProcessorNext]_vars

\* no call of shutdown is in progress and at least one has been made
AfterShutdown == shutdown_calls > 0 /\ processor_shutdown = "idle"

\* the recorder is shut down at most once and is gone after any call of shutdown;
\* a chunk fed after a call of shutdown does not reach it
ShutdownIsIdempotent ==
    /\ recorder_shutdowns <= 1
    /\ AfterShutdown => ~recorder_present
    /\ \A f \in fed_log : f.after => ~f.reached

\* a second call of shutdown has found the recorder shut down once and gone, and a
\* chunk fed before the first call reached the recorder while one fed after did not
ShutdownTwice ==
    /\ shutdown_calls = 2
    /\ processor_shutdown = "idle"
    /\ recorder_shutdowns = 1
    /\ fed_log = {[after |-> FALSE, reached |-> TRUE], [after |-> TRUE, reached |-> FALSE]}
    /\ monitor_thread = "terminated"

\* C40: TranscriptionProcessor.shutdown is idempotent and final: the recorder's
\* shutdown is invoked at most once over any number of shutdown calls, recorder is
\* None afterwards even if the recorder's shutdown raised, and after shutdown no
\* audio chunk passed to feed_audio reaches the recorder and the silence monitor
\* triggers no further synthetic final.
C40_ShutdownIsFinal ==
    /\ [](ShutdownIsIdempotent)
    /\ [][MonitorPromotes => ~shutdown_performed]_vars

=============================================================================
